---- MODULE Spec2Model ----
(***************************************************************************)
(* A model of the sharded inverted index of inverted_index.py: the         *)
(* tokenizer, the hash router, the two-phase batch ingestion, TF-IDF       *)
(* search, phrase search and the persistence of shards and metadata.       *)
(*                                                                         *)
(* Texts are sequences of one-character strings.  Scores are real numbers  *)
(* of the form  k + (a*ln 2 + b*ln 3)/d  and are kept exactly as records   *)
(* [k, a, b, d]; the floating point rounding of the program is not         *)
(* modelled.                                                               *)
(***************************************************************************)
EXTENDS Integers, Sequences, FiniteSets, TLC

(* ------------------------------ bounds --------------------------------- *)

\* Number of shards the index is constructed with (num_shards).
NumShards == 2
\* Documents per ingestion batch (self.batch_size, 1000 in the program).
BatchSize == 2
\* Documents handed to add_documents, one at a time and with ids of the
\* caller's choice, over the life of the model.
MaxIngest == 2
\* Documents handed to add_documents by callers that give every document a
\* new id; document ids are 1 .. MaxDocs.
MaxDocs == 3
\* The seeds of the builtin hash() of strings are 0 .. MaxSeed.
MaxSeed == 1
\* Candidates per group in phrase_search (batch_size = 100 in the program).
PhraseBatch == 1
\* Default of search's max_results.
DefaultMaxResults == 100
\* RankingHeap: cache_size; max_heap_size is None or 0 .. MaxHeapSize; the
\* relevances are 1 .. MaxRelevance; add_page is called MaxAdds times at
\* most; k is 0 .. MaxK.
CacheSize == 3
MaxHeapSize == 2
MaxRelevance == 2
MaxAdds == 3
MaxK == 2
\* Trie.insert is called MaxInserts times at most.
MaxInserts == 2
\* Trie.MAX_CACHE_SIZE
MAX_CACHE_SIZE == 1000
\* Characters of a raw text handed to preprocess_text.
MaxTextLen == 4

Shards == 0 .. (NumShards - 1)
DocIds == 1 .. MaxDocs
Seeds == 0 .. MaxSeed

(* ------------------------------ texts ---------------------------------- *)

LowerAZ == {"a", "b"}
UpperAZ == {"A", "B"}
Whitespace == {" "}

RECURSIVE JoinWords(_)
JoinWords(ws) ==
    IF Len(ws) = 0 THEN <<>>
    ELSE IF Len(ws) = 1 THEN ws[1]
    ELSE ws[1] \o <<" ">> \o JoinWords(Tail(ws))

SeqsUpTo(S, n) == UNION {[1 .. k -> S] : k \in 0 .. n}

\* Document contents and queries: up to two letter words joined by blanks,
\* the text "1" and the three-word text "a B a".
Texts == {JoinWords(ws) : ws \in SeqsUpTo({<<"a">>, <<"B">>}, 2) \cup {<<<<"1">>>>, <<<<"a">>, <<"B">>, <<"a">>>>}}

Range(s) == {s[i] : i \in DOMAIN s}

\* Raw texts: every string of letters of both cases, a digit and blanks.
RawChars == {"a", "B", "1", " "}
RawTexts == SeqsUpTo(RawChars, MaxTextLen)

\* Python values handed to preprocess_text: a str with its characters, or a
\* value of another type, which is truthy (5) or not (None).
PyStr(text) == [is_str |-> TRUE, truthy |-> text # <<>>, text |-> text]
NonStrings == {[is_str |-> FALSE, truthy |-> b] : b \in BOOLEAN}

(* ---------------------------- preprocess_text -------------------------- *)

\* No lower-casing at all.
SameChar(c) == c

\* str.lower() on one character.
LowerChar(c) == CASE c = "A" -> "a" [] c = "B" -> "b" [] OTHER -> c

StrLower(text) == [i \in 1 .. Len(text) |-> LowerChar(text[i])]

\* A pattern that lets digits through as well: [^a-z0-9\s].
KeepAlphaNumSpace(c) == c \in LowerAZ \cup Whitespace \cup {"1"}

\* re.sub(r'[^a-z\s]', '', text)
KeepAlphaSpace(c) == c \in LowerAZ \cup Whitespace

KeepAlpha(c) == c \in LowerAZ

\* A pattern that deletes the whitespace as well: [^a-z].
StripAllButAlpha(text) == SelectSeq(text, KeepAlpha)

StripSpecial(text) == SelectSeq(text, KeepAlphaSpace)

\* str.split(): the maximal runs of non-whitespace characters, in order.
RECURSIVE SplitFrom(_, _, _)
SplitFrom(text, i, cur) ==
    IF i > Len(text)
    THEN IF cur = <<>> THEN <<>> ELSE <<cur>>
    ELSE IF text[i] \in Whitespace
         THEN IF cur = <<>>
              THEN SplitFrom(text, i + 1, <<>>)
              ELSE <<cur>> \o SplitFrom(text, i + 1, <<>>)
         ELSE SplitFrom(text, i + 1, Append(cur, text[i]))

StrSplit(text) == SplitFrom(text, 1, <<>>)

NonEmptyWord(w) == w # <<>>

preprocess_text(text) ==
    IF text = <<>> THEN <<>>
    ELSE SelectSeq(StrSplit(StripSpecial(StrLower(text))), NonEmptyWord)

\* preprocess_text on a value of any type:
\* if not text or not isinstance(text, str): return []
preprocess_any(value) ==
    IF ~value.truthy \/ ~value.is_str THEN <<>>
    ELSE preprocess_text(value.text)

\* Every term a text of the model can produce.
Terms == UNION {Range(preprocess_text(t)) : t \in Texts}

\* The longest token list of a text.
MaxTerms == CHOOSE n \in 0 .. 8 : /\ \A t \in Texts : Len(preprocess_text(t)) <= n
                                  /\ \E t \in Texts : Len(preprocess_text(t)) = n

(* ------------------------------ state ---------------------------------- *)

VARIABLES
    index,          \* index[s]: shard s's mapping term -> <<[doc, positions], ...>>
    is_dirty,       \* is_dirty[s]
    doc_lengths,    \* doc id -> token count
    total_docs,
    executor,       \* "running" | "shutdown"
    hash_seed,      \* the seed of this process's builtin hash()
    shard_file,     \* shard_file[s]: what shard_<s>.pkl.gz holds
    metadata_file,  \* what metadata.pkl.gz holds
    pc,             \* where the caller of add_documents is
    batch,          \* add_documents' local batch
    futures,        \* shard ids whose update_shard task has not run yet
    ingested,       \* history: for each doc id the token lists ingested, in order
    flushed,        \* history: the index as it was when cleanup() returned
    last_error,     \* what the last add_documents or constructor call raised, "" for nothing
    batch_size,     \* self.batch_size
    heap,           \* RankingHeap.heap: (-relevance, page) in heapq's array order
    cached_results, \* RankingHeap.cached_results: k -> pages
    cache_queue,    \* RankingHeap.cache_queue, a deque of maxlen cache_size
    max_heap_size,  \* RankingHeap.max_heap_size, an Optional[int]
    added,          \* history: the relevance of each add_page call, in order
    heap_result,    \* what the last RankingHeap call returned or raised
    trie,           \* Trie: the nodes by their path from the root, size, _node_count
    prefix_cache,   \* Trie._prefix_cache: the entries in insertion order
    inserted,       \* history: the words Trie.insert was called with
    lock,           \* lock[s]: the caller whose task holds shard s's _lock, 0 for free
    tasks,          \* tasks[c][s]: the update_shard task of caller c's batch for shard s
    calls,          \* calls[c]: where thread c is in add_documents
    last_read,      \* history: what the last query read met in the shard it read
    searching,      \* searching[t]: the query call of thread t and its futures
    current_doc_id, \* SearchEngine.current_doc_id
    doc_store,      \* SearchEngine.doc_store: doc id -> content
    doc_titles      \* SearchEngine.doc_titles: doc id -> title

index_vars == <<index, is_dirty, doc_lengths, total_docs, executor, hash_seed,
                shard_file, metadata_file, pc, batch, futures, ingested, flushed,
                last_error, batch_size>>

heap_vars == <<heap, cached_results, cache_queue, max_heap_size, added,
               heap_result>>

trie_vars == <<trie, prefix_cache, inserted>>

task_vars == <<lock, tasks, calls, last_read, searching>>

engine_vars == <<current_doc_id, doc_store, doc_titles>>

vars == <<index_vars, heap_vars, trie_vars, task_vars, engine_vars>>

\* A file that does not exist.
NoFile == [exists |-> FALSE]
FileOf(content) == [exists |-> TRUE, readable |-> TRUE, data |-> content]

\* A python dict with no key.
EmptyDict == <<>>

(* --------------------------- ordered dicts ----------------------------- *)
\* shard.index[word] is a dict doc_id -> [positions]; its insertion order is
\* the order search() meets the documents in, so it is kept as a sequence
\* of entries.

DictKeys(d) == {d[i].doc : i \in DOMAIN d}

DictGet(d, doc) == (CHOOSE i \in DOMAIN d : d[i].doc = doc)

Positions(d, doc) == d[DictGet(d, doc)].positions

\* if doc_id not in shard.index[word]: shard.index[word][doc_id] = []
\* shard.index[word][doc_id].append(position)
AppendPosition(d, doc, position) ==
    IF doc \in DictKeys(d)
    THEN [d EXCEPT ![DictGet(d, doc)].positions = Append(@, position)]
    ELSE Append(d, [doc |-> doc, positions |-> <<position>>])

(* ------------------------------ routing -------------------------------- *)

\* The builtin hash() of a string is keyed by a seed drawn when the process
\* starts (PYTHONHASHSEED); within one process it is a function of the string.
CharCode(c) == CASE c = "a" -> 1 [] c = "b" -> 2 [] OTHER -> 3

RECURSIVE PyHash(_, _)
PyHash(seed, word) ==
    IF word = <<>> THEN 0
    ELSE PyHash(seed, SubSeq(word, 1, Len(word) - 1)) * 31
         + CharCode(word[Len(word)]) * (seed + 1)

\* hash(word) % self.num_shards
ShardIdFor(seed, word) == PyHash(seed, word) % NumShards

get_shard_for_word(word) == ShardIdFor(hash_seed, word)

(* ------------------------- _process_document_batch --------------------- *)

Put(f, k, v) == [x \in DOMAIN f \cup {k} |-> IF x = k THEN v ELSE f[x]]

\* self.doc_lengths[doc_id] = len(words), for the documents of a batch in order.
RECURSIVE RecordLengths(_, _)
RecordLengths(dl, docs) ==
    IF docs = <<>> THEN dl
    ELSE RecordLengths(Put(dl, docs[1][1], Len(preprocess_text(docs[1][2]))),
                       Tail(docs))

\* The pairs with the positions counted from 1.
OccurrencesFromOne(doc_id, words, word, i) ==
    LET hit(pair) == words[pair[2]] = word
    IN  SelectSeq([j \in 1 .. (Len(words) - i + 1) |-> <<doc_id, j + i - 1>>], hit)

\* The (doc_id, position) pairs of word in one document, by position.
RECURSIVE OccurrencesIn(_, _, _, _)
OccurrencesIn(doc_id, words, word, i) ==
    IF i > Len(words) THEN <<>>
    ELSE (IF words[i] = word THEN <<<<doc_id, i - 1>>>> ELSE <<>>)
         \o OccurrencesIn(doc_id, words, word, i + 1)

\* word_to_shard_mapping[shard_id][word] after the first pass over docs.
RECURSIVE Occurrences(_, _)
Occurrences(docs, word) ==
    IF docs = <<>> THEN <<>>
    ELSE OccurrencesIn(docs[1][1], preprocess_text(docs[1][2]), word, 1)
         \o Occurrences(Tail(docs), word)

BatchWords(docs) == UNION {Range(preprocess_text(docs[i][2])) : i \in DOMAIN docs}

\* The word_data of shard_id: the words of the batch that hash to it.
WordData(seed, docs, shard_id) ==
    [w \in {x \in BatchWords(docs) : ShardIdFor(seed, x) = shard_id}
       |-> Occurrences(docs, w)]

\* The keys of word_to_shard_mapping: the shards that received work.
ShardsWithWork(seed, docs) == {ShardIdFor(seed, w) : w \in BatchWords(docs)}

RECURSIVE ApplyOccurrences(_, _)
ApplyOccurrences(d, occurrences) ==
    IF occurrences = <<>> THEN d
    ELSE ApplyOccurrences(AppendPosition(d, occurrences[1][1], occurrences[1][2]),
                          Tail(occurrences))

\* An update that starts the entry of each word of the batch afresh:
\* shard.index[word] = {} before the occurrences are applied.
update_shard_afresh(shard_index, word_data) ==
    [w \in DOMAIN shard_index \cup DOMAIN word_data |->
        IF w \in DOMAIN word_data
        THEN ApplyOccurrences(EmptyDict, word_data[w])
        ELSE shard_index[w]]

\* update_shard: the shard's mapping after all of word_data is applied.
update_shard(shard_index, word_data) ==
    [w \in DOMAIN shard_index \cup DOMAIN word_data |->
        IF w \in DOMAIN word_data
        THEN ApplyOccurrences(IF w \in DOMAIN shard_index THEN shard_index[w]
                              ELSE EmptyDict, word_data[w])
        ELSE shard_index[w]]

\* History: the token lists each document id was ingested with.
RECURSIVE NoteIngested(_, _)
NoteIngested(ing, docs) ==
    IF docs = <<>> THEN ing
    ELSE NoteIngested([ing EXCEPT ![docs[1][1]] =
                           Append(@, preprocess_text(docs[1][2]))], Tail(docs))

RECURSIVE SumOver(_, _)
SumOver(f, S) ==
    IF S = {} THEN 0
    ELSE LET x == CHOOSE y \in S : TRUE IN f[x] + SumOver(f, S \ {x})

\* Document ids are opaque to the index, so the caller numbers new documents
\* 1, 2, 3, ...: the next document has an id already used or the least unused.
UsedIds == {d \in DocIds : ingested[d] # <<>>} \cup {batch[i][1] : i \in DOMAIN batch}
CallerIds == {d \in DocIds : \A e \in 1 .. (d - 1) : e \in UsedIds}

IngestCount == SumOver([d \in DocIds |-> Len(ingested[d])], DocIds)
                 + (IF pc = "loop" THEN Len(batch) ELSE 0)
                 + Cardinality({d \in DOMAIN doc_lengths : ingested[d] = <<>>})

(* ------------------------------- scores -------------------------------- *)
\* A score is the real number  k + (a*ln 2 + b*ln 3)/d,  d >= 1, kept in
\* lowest terms.  ln 2 and ln 3 are rationally independent, so two scores
\* are equal as reals exactly when their records are equal.

Abs(x) == IF x < 0 THEN -x ELSE x

RECURSIVE Gcd(_, _)
Gcd(x, y) == IF y = 0 THEN Abs(x) ELSE Gcd(y, x % Abs(y))

Normal(k, a, b, d) ==
    LET g == Gcd(Gcd(a, b), d)
    IN  [k |-> k, a |-> a \div g, b |-> b \div g, d |-> d \div g]

\* 0.0, the default of defaultdict(float).
Zero == [k |-> 0, a |-> 0, b |-> 0, d |-> 1]

\* The integer n as a score (term_scores[doc_id] = 1).
Flat(n) == [k |-> n, a |-> 0, b |-> 0, d |-> 1]

\* The exponent of the prime p in n >= 1.
RECURSIVE Valuation(_, _)
Valuation(p, n) == IF n % p = 0 THEN 1 + Valuation(p, n \div p) ELSE 0

RECURSIVE Power(_, _)
Power(p, e) == IF e = 0 THEN 1 ELSE p * Power(p, e - 1)

\* math.log(n) for an integer n >= 1 whose prime factors are 2 and 3.
Ln(n) ==
    LET a == Valuation(2, n)
        b == Valuation(3, n)
    IN  IF Power(2, a) * Power(3, b) = n
        THEN [k |-> 0, a |-> a, b |-> b, d |-> 1]
        ELSE CHOOSE x \in {} : TRUE

\* The quotient upside down: math.log(len(shard.index[term]) / self.total_docs).
IdfInverted(docs_total, docs_with_term) ==
    LET n == Ln(docs_total)
        m == Ln(docs_with_term)
    IN  [k |-> 0, a |-> m.a - n.a, b |-> m.b - n.b, d |-> 1]

\* idf = math.log(self.total_docs / len(shard.index[term])), total_docs >= 1
Idf(docs_total, docs_with_term) ==
    LET n == Ln(docs_total)
        m == Ln(docs_with_term)
    IN  [k |-> 0, a |-> n.a - m.a, b |-> n.b - m.b, d |-> 1]

\* A term frequency that forgets the number of positions: tf = 1 / length.
TfIdfNoCount(occurrences, length, idf) ==
    Normal(0, idf.a, idf.b, length * idf.d)

\* tf * idf with tf = occurrences / length, length >= 1
TfIdf(occurrences, length, idf) ==
    Normal(0, occurrences * idf.a, occurrences * idf.b, length * idf.d)

\* scores[doc_id] += score
ScoreAdd(x, y) ==
    Normal(x.k + y.k, x.a * y.d + y.a * x.d, x.b * y.d + y.b * x.d, x.d * y.d)

\* The sign of a*ln 2 + b*ln 3: with a > 0 > b it is that of a - |b|*log2(3),
\* and log2(3) = 1.5849625... is no closer than 0.00005 to a fraction whose
\* denominator is below 300.
LogSign(a, b) ==
    IF a = 0 /\ b = 0 THEN 0
    ELSE IF a >= 0 /\ b >= 0 THEN 1
    ELSE IF a <= 0 /\ b <= 0 THEN -1
    ELSE IF a * 1000000 > (-b) * 1584963 THEN 1 ELSE -1

\* The sign of x - y.
ScoreCmp(x, y) ==
    LET a == x.a * y.d - y.a * x.d
        b == x.b * y.d - y.b * x.d
    IN  IF a = 0 /\ b = 0
        THEN (IF x.k > y.k THEN 1 ELSE IF x.k < y.k THEN -1 ELSE 0)
        ELSE IF x.k = y.k THEN LogSign(a, b)
        ELSE CHOOSE s \in {} : TRUE

ScoreLess(x, y) == ScoreCmp(x, y) < 0
ScorePositive(x) == ScoreCmp(x, Zero) > 0

(* ------------------------------- search -------------------------------- *)

\* What a query reads: the in-memory index of one InvertedIndex object.
Memory == [index |-> index, doc_lengths |-> doc_lengths, total_docs |-> total_docs,
           hash_seed |-> hash_seed, executor |-> executor]

Returned(value) == [raised |-> "", value |-> value]
Raised(error) == [raised |-> error, value |-> <<>>]

\* The scores of process_term over the entries of shard.index[term], in the
\* order of the dict; a division by a zero length or a missing length raises.
RECURSIVE TermScores(_, _, _, _, _)
TermScores(m, entries, idf, use_tfidf, i) ==
    IF i > Len(entries) THEN Returned(<<>>)
    ELSE LET e == entries[i]
             rest == TermScores(m, entries, idf, use_tfidf, i + 1)
         IN  IF ~use_tfidf
             THEN IF rest.raised # "" THEN rest
                  ELSE Returned(<<[doc |-> e.doc, score |-> Flat(1)]>> \o rest.value)
             ELSE IF e.doc \notin DOMAIN m.doc_lengths THEN Raised("KeyError")
             ELSE IF m.doc_lengths[e.doc] = 0 THEN Raised("ZeroDivisionError")
             ELSE IF rest.raised # "" THEN rest
             ELSE Returned(<<[doc |-> e.doc,
                              score |-> TfIdf(Len(e.positions),
                                              m.doc_lengths[e.doc], idf)]>>
                           \o rest.value)

\* process_term(term)
process_term(m, term, use_tfidf) ==
    LET shard == m.index[ShardIdFor(m.hash_seed, term)]
    IN  IF term \notin DOMAIN shard THEN Returned(<<>>)
        ELSE IF m.total_docs = 0 THEN Raised("ValueError")
        ELSE TermScores(m, shard[term],
                        Idf(m.total_docs, Len(shard[term])), use_tfidf, 1)

ScoreKeys(scores) == {scores[i].doc : i \in DOMAIN scores}

\* An assignment in place of the sum: scores[doc_id] = score.
AddScoreOverwrite(scores, doc, score) ==
    IF doc \in ScoreKeys(scores)
    THEN LET i == CHOOSE j \in DOMAIN scores : scores[j].doc = doc
         IN  [scores EXCEPT ![i].score = score]
    ELSE Append(scores, [doc |-> doc, score |-> score])

\* scores[doc_id] += score on the dict scores, which keeps insertion order.
AddScore(scores, doc, score) ==
    IF doc \in ScoreKeys(scores)
    THEN LET i == CHOOSE j \in DOMAIN scores : scores[j].doc = doc
         IN  [scores EXCEPT ![i].score = ScoreAdd(@, score)]
    ELSE Append(scores, [doc |-> doc, score |-> ScoreAdd(Zero, score)])

RECURSIVE AddScores(_, _)
AddScores(scores, term_scores) ==
    IF term_scores = <<>> THEN scores
    ELSE AddScores(AddScore(scores, term_scores[1].doc, term_scores[1].score),
                   Tail(term_scores))

\* A merge that scores each distinct term once: a term met earlier in the
\* query is skipped.
RECURSIVE CombineDistinct(_, _, _, _, _)
CombineDistinct(m, query_terms, use_tfidf, i, scores) ==
    IF i > Len(query_terms) THEN Returned(scores)
    ELSE IF \E j \in 1 .. (i - 1) : query_terms[j] = query_terms[i]
         THEN CombineDistinct(m, query_terms, use_tfidf, i + 1, scores)
    ELSE LET r == process_term(m, query_terms[i], use_tfidf)
         IN  IF r.raised # "" THEN r
             ELSE CombineDistinct(m, query_terms, use_tfidf, i + 1,
                                  AddScores(scores, r.value))

\* for future in futures: the results of process_term are merged in the
\* order of query_terms; the first one that raised ends the search.
RECURSIVE CombineScores(_, _, _, _, _)
CombineScores(m, query_terms, use_tfidf, i, scores) ==
    IF i > Len(query_terms) THEN Returned(scores)
    ELSE LET r == process_term(m, query_terms[i], use_tfidf)
         IN  IF r.raised # "" THEN r
             ELSE CombineScores(m, query_terms, use_tfidf, i + 1,
                                AddScores(scores, r.value))

\* The same step of a sort without reverse=True: ascending scores.
RECURSIVE InsertAscending(_, _)
InsertAscending(ranked, e) ==
    IF ranked = <<>> THEN <<e>>
    ELSE IF ScoreLess(e.score, ranked[1].score) THEN <<e>> \o ranked
    ELSE <<ranked[1]>> \o InsertAscending(Tail(ranked), e)

\* One step of a stable sort by descending score: e goes behind every entry
\* whose score is not less than its own.
RECURSIVE InsertRanked(_, _)
InsertRanked(ranked, e) ==
    IF ranked = <<>> THEN <<e>>
    ELSE IF ScoreLess(ranked[1].score, e.score) THEN <<e>> \o ranked
    ELSE <<ranked[1]>> \o InsertRanked(Tail(ranked), e)

\* sorted(scores.items(), key=lambda x: x[1], reverse=True)
RECURSIVE SortedByScore(_, _)
SortedByScore(items, n) ==
    IF n = 0 THEN <<>>
    ELSE InsertRanked(SortedByScore(items, n - 1), items[n])

Min(x, y) == IF x < y THEN x ELSE y

\* ranked_results[:max_results] for max_results >= 0
Truncate(ranked, max_results) == SubSeq(ranked, 1, Min(max_results, Len(ranked)))

\* The merged score map of a query, before it is sorted.
MergedScores(m, query, use_tfidf) ==
    CombineScores(m, preprocess_text(query), use_tfidf, 1, <<>>)

\* InvertedIndex.search on the memory m.
SearchIn(m, query, use_tfidf, max_results) ==
    LET query_terms == preprocess_text(query)
    IN  IF query_terms = <<>> THEN Returned(<<>>)
        ELSE IF m.executor # "running" THEN Raised("RuntimeError")
        ELSE LET merged == CombineScores(m, query_terms, use_tfidf, 1, <<>>)
             IN  IF merged.raised # "" THEN merged
                 ELSE Returned(Truncate(SortedByScore(merged.value,
                                                      Len(merged.value)),
                                        max_results))

search(query, use_tfidf, max_results) ==
    SearchIn(Memory, query, use_tfidf, max_results)

(* ---------------------------- phrase_search ---------------------------- *)

\* The entries of word in its shard (word is a key of that shard).
Entries(m, word) == m.index[ShardIdFor(m.hash_seed, word)][word]

HasWord(m, word) == word \in DOMAIN m.index[ShardIdFor(m.hash_seed, word)]

\* set(shard.index[word].get(doc_id, []))
PositionSet(m, word, doc) ==
    IF doc \in DictKeys(Entries(m, word))
    THEN Range(Positions(Entries(m, word), doc)) ELSE {}

\* The order a set is iterated in does not change while the set is not
\* modified; the result of phrase_search, a set, does not depend on which
\* order it is, and the increasing one is taken.
RECURSIVE Ascending(_)
Ascending(S) ==
    IF S = {} THEN <<>>
    ELSE LET x == CHOOSE y \in S : \A z \in S : y <= z
         IN  <<x>> \o Ascending(S \ {x})

\* candidate_docs after the intersection over words[1:].
Candidates(m, words) ==
    {doc \in DictKeys(Entries(m, words[1])) :
        \A i \in 2 .. Len(words) : doc \in DictKeys(Entries(m, words[i]))}

\* A test that looks for every later word at pos instead of pos + i.
IsPhraseAtSamePos(m, words, doc, pos) ==
    \A i \in 1 .. (Len(words) - 1) : pos \in PositionSet(m, words[i + 1], doc)

\* for pos in positions: ... is_phrase
IsPhraseAt(m, words, doc, pos) ==
    \A i \in 1 .. (Len(words) - 1) : (pos + i) \in PositionSet(m, words[i + 1], doc)

MatchesPhrase(m, words, doc) ==
    \E j \in DOMAIN Positions(Entries(m, words[1]), doc) :
        IsPhraseAt(m, words, doc, Positions(Entries(m, words[1]), doc)[j])

\* for i in range(0, len(candidate_docs), batch_size):
\*     batch_docs = list(islice(candidate_docs, i, i + batch_size))
RECURSIVE PhraseGroups(_, _, _, _)
PhraseGroups(m, words, candidates, i) ==
    IF i >= Len(candidates) THEN {}
    ELSE LET batch_docs == SubSeq(candidates, i + 1,
                                  Min(i + PhraseBatch, Len(candidates)))
         IN  {batch_docs[j] : j \in {n \in DOMAIN batch_docs :
                                        MatchesPhrase(m, words, batch_docs[n])}}
             \cup PhraseGroups(m, words, candidates, i + PhraseBatch)

\* InvertedIndex.phrase_search on the memory m.
PhraseSearchIn(m, phrase) ==
    LET words == preprocess_text(phrase)
    IN  IF words = <<>> THEN Returned({})
        ELSE IF \E i \in DOMAIN words : ~HasWord(m, words[i]) THEN Returned({})
        ELSE Returned(PhraseGroups(m, words, Ascending(Candidates(m, words)), 0))

phrase_search(phrase) == PhraseSearchIn(Memory, phrase)

(* ----------------------------- persistence ----------------------------- *)

\* Every shard is written, dirty or not.
SavedAllShardFiles == [s \in Shards |-> FileOf(index[s])]

\* IndexShard.save for every shard: a dirty shard is written and cleaned.
SavedShardFiles ==
    [s \in Shards |-> IF is_dirty[s] THEN FileOf(index[s]) ELSE shard_file[s]]

\* A return without the save.
save_nothing(td) == UNCHANGED <<metadata_file, shard_file, is_dirty>>

\* _save_metadata with total_docs already at td.
save_metadata(td) ==
    /\ metadata_file' = FileOf([doc_lengths |-> doc_lengths, total_docs |-> td])
    /\ shard_file' = SavedShardFiles
    /\ is_dirty' = [s \in Shards |-> FALSE]

\* A load that takes a file it cannot read for no file.
LoadedShardLenient(s) ==
    IF shard_file[s].exists /\ shard_file[s].readable
    THEN Returned(shard_file[s].data) ELSE Returned(EmptyDict)

\* IndexShard.load: the file's mapping, or the empty mapping of __init__ when
\* there is no file; zlib.decompress raises on a file it cannot read.
LoadedShard(s) ==
    IF ~shard_file[s].exists THEN Returned(EmptyDict)
    ELSE IF ~shard_file[s].readable THEN Raised("zlib.error")
    ELSE Returned(shard_file[s].data)

\* The metadata part of _load_metadata.
LoadedMetadata ==
    IF ~metadata_file.exists
    THEN Returned([doc_lengths |-> EmptyDict, total_docs |-> 0])
    ELSE IF ~metadata_file.readable THEN Raised("zlib.error")
    ELSE Returned(metadata_file.data)

\* What InvertedIndex.__init__ raises: the error of the first load that fails.
LoadError ==
    IF LoadedMetadata.raised # "" THEN LoadedMetadata.raised
    ELSE IF \E s \in Shards : LoadedShard(s).raised # ""
         THEN LoadedShard(CHOOSE s \in Shards : LoadedShard(s).raised # "").raised
    ELSE ""

\* InvertedIndex.__init__ followed by a _load_metadata that raises nothing.
load_metadata ==
    /\ doc_lengths' = LoadedMetadata.value.doc_lengths
    /\ total_docs' = LoadedMetadata.value.total_docs
    /\ index' = [s \in Shards |-> LoadedShard(s).value]
    /\ is_dirty' = [s \in Shards |-> FALSE]
    /\ executor' = "running"

NoSnapshot == [taken |-> FALSE]

(* ----------------------------- RankingHeap ----------------------------- *)
\* self.heap is a list of (-relevance, page) in the array order of heapq;
\* tuples compare by their first component, then by the second.  The page
\* of the i-th add_page call is i, so pages are distinct and comparable.

EntryLess(x, y) == x[1] < y[1] \/ (x[1] = y[1] /\ x[2] < y[2])

\* heapq._siftdown(heap, startpos, pos), positions from 0.
RECURSIVE SiftDown(_, _, _, _)
SiftDown(h, startpos, pos, newitem) ==
    LET parentpos == (pos - 1) \div 2
    IN  IF pos > startpos /\ EntryLess(newitem, h[parentpos + 1])
        THEN SiftDown([h EXCEPT ![pos + 1] = h[parentpos + 1]], startpos,
                      parentpos, newitem)
        ELSE [h EXCEPT ![pos + 1] = newitem]

\* heapq._siftup(heap, pos): the smaller child moves up until a leaf is
\* reached, then the item is sifted down from there.
RECURSIVE SiftUpFrom(_, _, _, _)
SiftUpFrom(h, startpos, pos, newitem) ==
    LET childpos == 2 * pos + 1
        rightpos == childpos + 1
        smaller == IF rightpos < Len(h) /\ ~EntryLess(h[childpos + 1], h[rightpos + 1])
                   THEN rightpos ELSE childpos
    IN  IF childpos < Len(h)
        THEN SiftUpFrom([h EXCEPT ![pos + 1] = h[smaller + 1]], startpos,
                        smaller, newitem)
        ELSE SiftDown([h EXCEPT ![pos + 1] = newitem], startpos, pos, newitem)

SiftUp(h, pos) == SiftUpFrom(h, pos, pos, h[pos + 1])

\* heapq.heappush(heap, item)
heappush(h, item) == SiftDown(Append(h, item), 0, Len(h), item)

\* heapq.heappop(heap): the item popped and the heap that is left.
heappop(h) ==
    LET lastelt == h[Len(h)]
        rest == SubSeq(h, 1, Len(h) - 1)
    IN  IF rest = <<>> THEN [item |-> lastelt, heap |-> rest]
        ELSE [item |-> rest[1],
              heap |-> SiftUp([rest EXCEPT ![1] = lastelt], 0)]

\* heapq.heapify(x): for i in reversed(range(n // 2)): _siftup(x, i)
RECURSIVE HeapifyFrom(_, _)
HeapifyFrom(h, i) == IF i < 0 THEN h ELSE HeapifyFrom(SiftUp(h, i), i - 1)

heapify(h) == HeapifyFrom(h, (Len(h) \div 2) - 1)

\* [heapq.heappop(h)[1] for _ in range(n)]: the pages popped and the heap left.
RECURSIVE PopPages(_, _)
PopPages(h, n) ==
    IF n <= 0 THEN [pages |-> <<>>, heap |-> h]
    ELSE LET popped == heappop(h)
             more == PopPages(popped.heap, n - 1)
         IN  [pages |-> <<popped.item[2]>> \o more.pages, heap |-> more.heap]

\* The loop of add_page: the first index, from 0, of an entry whose first
\* component is the greatest.
RECURSIVE LowestFrom(_, _, _)
LowestFrom(h, i, lowest_idx) ==
    IF i >= Len(h) THEN lowest_idx
    ELSE LowestFrom(h, i + 1,
                    IF h[i + 1][1] > h[lowest_idx + 1][1] THEN i ELSE lowest_idx)

LowestIdx(h) == LowestFrom(h, 0, 0)

\* An Optional[int] is the set of its value: {} for None, {n} for n.
NoneValue == {}
Some(n) == {n}

\* if self.max_heap_size and len(self.heap) >= self.max_heap_size:
\* None and 0 are both false.
IsFull(h, limit) == \E n \in limit : n # 0 /\ Len(h) >= n

\* add_page(relevance, page) on the heap h: the heap that is left, whether
\* the cache is cleared, and the value returned (<<>> for None).
add_page(h, limit, relevance, page) ==
    IF IsFull(h, limit)
    THEN LET lowest_idx == LowestIdx(h)
             lowest == h[lowest_idx + 1]
         IN  IF -relevance < lowest[1]
             THEN [heap |-> heapify([h EXCEPT ![lowest_idx + 1] = <<-relevance, page>>]),
                   cleared |-> TRUE,
                   value |-> <<-lowest[1], lowest[2]>>]
             ELSE [heap |-> h, cleared |-> FALSE, value |-> <<relevance, page>>]
    ELSE [heap |-> heappush(h, <<-relevance, page>>), cleared |-> TRUE,
          value |-> <<>>]

Drop(f, k) == [x \in DOMAIN f \ {k} |-> f[x]]

\* deque.remove(x): the first occurrence goes.
RECURSIVE RemoveFirst(_, _)
RemoveFirst(q, x) ==
    IF q = <<>> THEN q
    ELSE IF Head(q) = x THEN Tail(q)
    ELSE <<Head(q)>> \o RemoveFirst(Tail(q), x)

\* deque(maxlen=cache_size).append(x): a full deque drops its left end.
DequeAppend(q, x, maxlen) ==
    IF maxlen = 0 THEN q
    ELSE IF Len(q) >= maxlen THEN Append(Tail(q), x)
    ELSE Append(q, x)

FirstK(s, k) == SubSeq(s, 1, Min(k, Len(s)))

\* peek_top_results(k) on the heap h with the cache (cached, queue): what
\* it raises or returns, and the cache it leaves.
PeekOutcome(h, cached, queue, cache_size, k) ==
    IF k \in DOMAIN cached
    THEN IF k \notin Range(queue)
         THEN [raised |-> "ValueError", value |-> <<>>,
               cached |-> cached, queue |-> queue]
         ELSE [raised |-> "", value |-> FirstK(cached[k], k),
               cached |-> cached,
               queue |-> DequeAppend(RemoveFirst(queue, k), k, cache_size)]
    ELSE LET results == PopPages(h, Min(k, Len(h))).pages
         IN  IF k > cache_size
             THEN [raised |-> "", value |-> results,
                   cached |-> cached, queue |-> queue]
             ELSE IF Cardinality(DOMAIN cached) < cache_size
             THEN [raised |-> "", value |-> results,
                   cached |-> Put(cached, k, results),
                   queue |-> DequeAppend(queue, k, cache_size)]
             ELSE IF queue = <<>>
             THEN [raised |-> "IndexError", value |-> <<>>,
                   cached |-> cached, queue |-> queue]
             ELSE IF queue[1] \notin DOMAIN cached
             THEN [raised |-> "KeyError", value |-> <<>>,
                   cached |-> cached, queue |-> queue]
             ELSE [raised |-> "", value |-> results,
                   cached |-> Put(Drop(cached, queue[1]), k, results),
                   queue |-> DequeAppend(RemoveFirst(queue, queue[1]), k,
                                         cache_size)]

\* RankingHeap(cache_size, max_heap_size)
NewRankingHeap(limit) ==
    /\ heap = <<>>
    /\ cached_results = EmptyDict
    /\ cache_queue = <<>>
    /\ max_heap_size = limit
    /\ added = <<>>
    /\ heap_result = [op |-> "__init__", raised |-> "", value |-> <<>>]

(* -------------------------------- Trie --------------------------------- *)
\* A node is known by its path from the root; node.children holds char
\* exactly when path + char is a node.  No code assigns compressed_value,
\* so it is None in every node and the branches that test it are not taken.

TrieNode == [is_end_of_word |-> FALSE, frequency |-> 0]

\* Words handed to insert and search_prefix.
TrieWords ==
    {<<>>, <<"a">>, <<"A">>, <<"b">>, <<"a", "b">>, <<"a", "B">>,
     <<"a", "b", "a">>, <<"a", "b", "a", "b">>, <<"A", "b", "a", "B">>}

Prefixes(w) == {SubSeq(w, 1, i) : i \in 1 .. Len(w)}

\* str.startswith
StartsWith(text, prefix) ==
    Len(prefix) <= Len(text) /\ SubSeq(text, 1, Len(prefix)) = prefix

\* insert(word) on the trie t, word not empty.
insert(t, word) ==
    LET w == StrLower(word)
        grown == [p \in DOMAIN t.nodes \cup Prefixes(w) |->
                     IF p \in DOMAIN t.nodes THEN t.nodes[p] ELSE TrieNode]
    IN  [nodes |-> [grown EXCEPT ![w] = [is_end_of_word |-> TRUE,
                                         frequency |-> @.frequency + 1]],
         size |-> t.size + 1,
         node_count |-> t.node_count + Cardinality(Prefixes(w) \ DOMAIN t.nodes)]

CacheKeys(cache) == {cache[i].key : i \in DOMAIN cache}

\* An insert that leaves the cache as it is.
KeepCache(cache, word) == cache

\* affected_prefix = word[:3]; the entries whose key starts with it go.
InvalidateCache(cache, word) ==
    LET w == StrLower(word)
        affected_prefix == SubSeq(w, 1, Min(3, Len(w)))
        Kept(e) == ~StartsWith(e.key, affected_prefix)
    IN  SelectSeq(cache, Kept)

\* _cache_result(prefix, result): a full cache loses its oldest tenth; an
\* entry that is there keeps its place.
cache_result(cache, prefix, result) ==
    LET room == IF Len(cache) >= MAX_CACHE_SIZE
                THEN SubSeq(cache, (MAX_CACHE_SIZE \div 10) + 1, Len(cache))
                ELSE cache
    IN  IF prefix \in CacheKeys(room)
        THEN [i \in DOMAIN room |->
                 IF room[i].key = prefix THEN [key |-> prefix, value |-> result]
                 ELSE room[i]]
        ELSE Append(room, [key |-> prefix, value |-> result])

\* The loop of search_prefix over the lower-cased prefix, from character i.
RECURSIVE Traverse(_, _, _)
Traverse(t, prefix, i) ==
    IF i > Len(prefix) THEN t.nodes[prefix].is_end_of_word
    ELSE IF SubSeq(prefix, 1, i) \notin DOMAIN t.nodes THEN FALSE
    ELSE Traverse(t, prefix, i + 1)

\* search_prefix(prefix): the value returned and the cache that is left.
search_prefix(t, cache, prefix) ==
    IF prefix = <<>> THEN [value |-> FALSE, cache |-> cache]
    ELSE IF prefix \in CacheKeys(cache)
    THEN [value |-> (CHOOSE e \in Range(cache) : e.key = prefix).value,
          cache |-> cache]
    ELSE LET lowered == StrLower(prefix)
             found == Traverse(t, lowered, 1)
         IN  [value |-> found, cache |-> cache_result(cache, lowered, found)]

\* Trie()
NewTrie ==
    /\ trie = [nodes |-> [p \in {<<>>} |-> TrieNode], size |-> 0, node_count |-> 0]
    /\ prefix_cache = <<>>
    /\ inserted = {}

(* ------------------------------- actions ------------------------------- *)

\* The state after InvertedIndex(base_path, num_shards) on an empty directory.
\* The threads that call into one index, and its tasks: every shard's _lock
\* is free, no task is submitted, no thread is inside add_documents.
Callers == {1, 2}

NoTask == [state |-> "none", todo |-> <<>>, done |-> 0]

\* The threads that query the index.
Searchers == {1, 2}

\* No search() call is under way and none has left a task behind.
NoSearch == [pc |-> "idle", terms |-> <<>>, use_tfidf |-> TRUE, futures |-> <<>>,
             at |-> 1, scores |-> <<>>, outcome |-> [raised |-> "", value |-> <<>>],
             found |-> {}]

NewThreads ==
    /\ lock = [s \in Shards |-> 0]
    /\ tasks = [c \in Callers |-> [s \in Shards |-> NoTask]]
    /\ calls = [c \in Callers |-> [pc |-> "idle", docs |-> <<>>, seen |-> 0]]
    /\ last_read = [taken |-> FALSE]
    /\ searching = [t \in Searchers |-> NoSearch]

NewIndex ==
    /\ index = [s \in Shards |-> EmptyDict]
    /\ is_dirty = [s \in Shards |-> FALSE]
    /\ doc_lengths = EmptyDict
    /\ total_docs = 0
    /\ executor = "running"
    /\ hash_seed \in Seeds
    /\ shard_file = [s \in Shards |-> NoFile]
    /\ metadata_file = NoFile
    /\ pc = "idle"
    /\ batch = <<>>
    /\ futures = {}
    /\ ingested = [d \in DocIds |-> <<>>]
    /\ flushed = NoSnapshot
    /\ last_error = ""

\* SearchEngine.__init__, after the index, the trie and the heap: the stores
\* are empty and the counter of document ids is 0.
NewSearchEngine ==
    /\ current_doc_id = 0
    /\ doc_store = EmptyDict
    /\ doc_titles = EmptyDict

\* SearchEngine.__init__: the index, and a heap of max_results pages.
Init ==
    /\ NewIndex /\ batch_size = BatchSize /\ NewRankingHeap(Some(MaxHeapSize))
    /\ NewTrie /\ NewThreads /\ NewSearchEngine

\* The caller has assigned the attribute batch_size a value of its choice.
InitSizes ==
    /\ NewIndex /\ batch_size \in 0 .. BatchSize /\ NewRankingHeap(Some(MaxHeapSize))
    /\ NewTrie /\ NewThreads /\ NewSearchEngine

\* add_documents is called: batch = [].
EnterAddDocuments ==
    /\ pc = "idle"
    /\ IngestCount < MaxIngest
    /\ pc' = "loop"
    /\ batch' = <<>>
    /\ flushed' = NoSnapshot
    /\ last_error' = ""
    /\ UNCHANGED <<index, is_dirty, doc_lengths, total_docs, executor, hash_seed,
                   shard_file, metadata_file, futures, ingested, batch_size, heap_vars, trie_vars, task_vars,
                   engine_vars>>

\* add_documents is called on an index that is open.
AddDocuments == executor = "running" /\ EnterAddDocuments

\* add_documents is called on an index after its cleanup().
AddDocumentsAfterCleanup == executor = "shutdown" /\ EnterAddDocuments

\* What the submission of the update_shard tasks of docs raises:
\* executor.submit raises RuntimeError once the pool is shut down.
SubmitError(docs) ==
    IF ShardsWithWork(hash_seed, docs) # {} /\ executor # "running"
    THEN "RuntimeError" ELSE ""

\* A count that is advanced whether or not the batch was processed.
CountedAnyway(td, docs, error) == td + Len(docs)

\* A count that leaves out the documents without a token.
CountedWithTokens(td, docs, error) ==
    IF error = ""
    THEN td + Cardinality({i \in DOMAIN docs : preprocess_text(docs[i][2]) # <<>>})
    ELSE td

\* A count that takes every batch for a full one: total_docs += batch_size.
CountedFull(td, docs, error) == IF error = "" THEN td + batch_size ELSE td

\* self.total_docs after _process_document_batch(docs) ended with error
\* ("" when it returned): total_docs += len(batch) is the next statement.
Counted(td, docs, error) == IF error = "" THEN td + Len(docs) ELSE td

\* _process_document_batch(docs) up to the submission of its tasks: the first
\* pass, then one update_shard task per shard that received work; when the
\* submission raises, add_documents ends with that error.
StartBatch(docs, waiting) ==
    /\ doc_lengths' = RecordLengths(doc_lengths, docs)
    /\ IF SubmitError(docs) # ""
       THEN /\ last_error' = SubmitError(docs)
            /\ total_docs' = Counted(total_docs, docs, SubmitError(docs))
            /\ pc' = "idle"
            /\ batch' = <<>>
            /\ UNCHANGED <<futures, ingested>>
       ELSE /\ futures' = ShardsWithWork(hash_seed, docs)
            /\ ingested' = NoteIngested(ingested, docs)
            /\ batch' = docs
            /\ pc' = waiting
            /\ UNCHANGED <<total_docs, last_error>>

\* One turn of the loop of add_documents: the stream yields a document.
NextDocument(doc_id, content) ==
    /\ pc = "loop"
    /\ IngestCount < MaxIngest
    /\ LET grown == Append(batch, <<doc_id, content>>)
       IN  IF Len(grown) >= batch_size
           THEN StartBatch(grown, "wait")
           ELSE /\ batch' = grown
                /\ pc' = "loop"
                /\ UNCHANGED <<doc_lengths, futures, ingested, total_docs,
                               last_error>>
    /\ UNCHANGED <<index, is_dirty, executor, hash_seed, shard_file,
                   metadata_file, flushed, batch_size, heap_vars, trie_vars, task_vars,
                   engine_vars>>

\* An update that leaves the flags as they are.
MarkedNothing(flags, shard_id) == flags

\* shard.is_dirty = True
MarkedDirty(flags, shard_id) == [flags EXCEPT ![shard_id] = TRUE]

\* A worker of the pool runs the update_shard task of one shard.
UpdateShard(shard_id) ==
    /\ shard_id \in futures
    /\ index' = [index EXCEPT ![shard_id] =
                    update_shard(@, WordData(hash_seed, batch, shard_id))]
    /\ is_dirty' = MarkedDirty(is_dirty, shard_id)
    /\ futures' = futures \ {shard_id}
    /\ UNCHANGED <<doc_lengths, total_docs, executor, hash_seed, shard_file,
                   metadata_file, pc, batch, ingested, flushed, last_error,
                   batch_size, heap_vars, trie_vars, task_vars, engine_vars>>

\* Every future of a full batch has a result: total_docs += len(batch).
\* A wait that is over at once.
AllDoneAnyway(fs) == TRUE

\* for future in futures: future.result() has returned for every task.
AllDone(fs) == fs = {}

BatchDone ==
    /\ pc = "wait"
    /\ AllDone(futures)
    /\ total_docs' = Counted(total_docs, batch, "")
    /\ batch' = <<>>
    /\ pc' = "loop"
    /\ UNCHANGED <<index, is_dirty, doc_lengths, executor, hash_seed, shard_file,
                   metadata_file, futures, ingested, flushed, last_error,
                   batch_size, heap_vars, trie_vars, task_vars, engine_vars>>

\* The stream is exhausted: a non-empty last batch is processed.
EndOfStream ==
    /\ pc = "loop"
    /\ IF batch # <<>>
       THEN /\ StartBatch(batch, "wait_last")
            /\ UNCHANGED <<metadata_file, shard_file, is_dirty>>
       ELSE /\ save_metadata(total_docs)
            /\ pc' = "idle"
            /\ UNCHANGED <<total_docs, doc_lengths, futures, ingested, batch,
                           last_error>>
    /\ UNCHANGED <<index, executor, hash_seed, flushed, batch_size, heap_vars, trie_vars, task_vars,
                   engine_vars>>

\* The last batch is applied: total_docs += len(batch); _save_metadata().
LastBatchDone ==
    /\ pc = "wait_last"
    /\ AllDone(futures)
    /\ total_docs' = Counted(total_docs, batch, "")
    /\ save_metadata(total_docs')
    /\ batch' = <<>>
    /\ pc' = "idle"
    /\ UNCHANGED <<index, doc_lengths, executor, hash_seed, futures, ingested,
                   flushed, last_error, batch_size, heap_vars, trie_vars, task_vars,
                   engine_vars>>

\* cleanup(): _save_metadata(); executor.shutdown(), which may be repeated.
Cleanup ==
    /\ pc = "idle"
    /\ save_metadata(total_docs)
    /\ executor' = "shutdown"
    /\ flushed' = [taken |-> TRUE, index |-> index, doc_lengths |-> doc_lengths,
                   total_docs |-> total_docs, hash_seed |-> hash_seed]
    /\ UNCHANGED <<index, doc_lengths, total_docs, hash_seed, pc, batch, futures,
                   ingested, last_error, batch_size, heap_vars, trie_vars, task_vars,
                   engine_vars>>

\* A fresh InvertedIndex over the same base_path, in the same process; when
\* a load raises, the constructor raises and the caller gets no new index.
Reopen ==
    /\ pc = "idle"
    /\ IF LoadError = ""
       THEN /\ load_metadata
            /\ last_error' = ""
       ELSE /\ last_error' = LoadError
            /\ UNCHANGED <<doc_lengths, total_docs, index, is_dirty, executor>>
    /\ UNCHANGED <<hash_seed, shard_file, metadata_file, pc, batch, futures,
                   ingested, flushed, batch_size, heap_vars, trie_vars, task_vars,
                   engine_vars>>

\* The process ends and a later run constructs the index over the same
\* base_path: the builtin hash of strings is seeded anew.
Restart ==
    /\ pc = "idle"
    /\ LoadError = ""
    /\ hash_seed' \in Seeds
    /\ load_metadata
    /\ last_error' = ""
    /\ UNCHANGED <<shard_file, metadata_file, pc, batch, futures, ingested,
                   flushed, batch_size, heap_vars, trie_vars, task_vars,
                   engine_vars>>

\* Something outside the program damages a file of the index directory while
\* no index is open on it.
Unreadable == [exists |-> TRUE, readable |-> FALSE]

CorruptFile ==
    /\ pc = "idle"
    /\ executor = "shutdown"
    /\ \/ /\ metadata_file.exists
          /\ metadata_file' = Unreadable
          /\ UNCHANGED shard_file
       \/ \E s \in Shards :
             /\ shard_file[s].exists
             /\ shard_file' = [shard_file EXCEPT ![s] = Unreadable]
             /\ UNCHANGED metadata_file
    /\ UNCHANGED <<index, is_dirty, doc_lengths, total_docs, executor, hash_seed,
                   pc, batch, futures, ingested, flushed, last_error, batch_size, heap_vars, trie_vars, task_vars,
                   engine_vars>>

(* ------------------- add_documents as one uninterrupted call ----------- *)

\* _process_document_batch(docs) and total_docs += len(docs) on the record
\* st of the fields ingestion writes.
ProcessBatch(st, docs) ==
    [index |-> [s \in Shards |->
                   IF s \in ShardsWithWork(hash_seed, docs)
                   THEN update_shard(st.index[s], WordData(hash_seed, docs, s))
                   ELSE st.index[s]],
     is_dirty |-> [s \in Shards |->
                      st.is_dirty[s] \/ s \in ShardsWithWork(hash_seed, docs)],
     doc_lengths |-> RecordLengths(st.doc_lengths, docs),
     total_docs |-> Counted(st.total_docs, docs, ""),
     ingested |-> NoteIngested(st.ingested, docs)]

\* The loop of add_documents over the rest of the stream, and the last batch.
RECURSIVE RunStream(_, _, _)
RunStream(st, documents, pending) ==
    IF documents = <<>>
    THEN IF pending # <<>> THEN ProcessBatch(st, pending) ELSE st
    ELSE LET grown == Append(pending, documents[1])
         IN  IF Len(grown) >= batch_size
             THEN RunStream(ProcessBatch(st, grown), Tail(documents), <<>>)
             ELSE RunStream(st, Tail(documents), grown)

\* The stream of a caller that numbers its documents as it adds them, as
\* SearchEngine.add_document does: each gets the least id not used yet.
NextId == Cardinality(UsedIds) + 1

Numbered(contents) == [i \in DOMAIN contents |-> <<NextId + i - 1, contents[i]>>]

\* add_documents(documents) with no other thread running in between: what
\* the call does to the index and its files.
AddDocumentsRun(documents) ==
    /\ pc = "idle"
    /\ executor = "running"
    /\ LET st == RunStream([index |-> index, is_dirty |-> is_dirty,
                            doc_lengths |-> doc_lengths, total_docs |-> total_docs,
                            ingested |-> ingested], documents, <<>>)
       IN  /\ index' = st.index
           /\ doc_lengths' = st.doc_lengths
           /\ total_docs' = st.total_docs
           /\ ingested' = st.ingested
           /\ metadata_file' = FileOf([doc_lengths |-> st.doc_lengths,
                                       total_docs |-> st.total_docs])
           /\ shard_file' = [s \in Shards |-> IF st.is_dirty[s]
                                               THEN FileOf(st.index[s])
                                               ELSE shard_file[s]]
           /\ is_dirty' = [s \in Shards |-> FALSE]
    /\ flushed' = NoSnapshot
    /\ last_error' = ""
    /\ UNCHANGED <<executor, hash_seed, pc, batch, futures, batch_size>>

\* add_documents(documents) called on the index by itself.
AddDocumentsCall(documents) ==
    /\ AddDocumentsRun(documents)
    /\ UNCHANGED <<heap_vars, trie_vars, task_vars, engine_vars>>

\* The public operations, each running to completion, of a caller that never
\* passes a document id twice.
NextCalls ==
    \/ \E contents \in SeqsUpTo(Texts, Min(BatchSize, MaxDocs - Cardinality(UsedIds))) :
          AddDocumentsCall(Numbered(contents))
    \/ Cleanup

SpecCalls == Init /\ [][NextCalls]_vars

\* One run of the process.
Next ==
    \/ AddDocuments
    \/ \E doc_id \in CallerIds, content \in Texts : NextDocument(doc_id, content)
    \/ \E shard_id \in Shards : UpdateShard(shard_id)
    \/ BatchDone
    \/ EndOfStream
    \/ LastBatchDone
    \/ Cleanup
    \/ Reopen

Spec == Init /\ [][Next]_vars

\* Several runs of the process over the same base_path.
NextRuns == Next \/ Restart

SpecRuns == Init /\ [][NextRuns]_vars

\* One run in which the caller goes on using the index after cleanup().
NextClosed ==
    \/ AddDocuments
    \/ AddDocumentsAfterCleanup
    \/ \E doc_id \in CallerIds, content \in Texts : NextDocument(doc_id, content)
    \/ \E shard_id \in Shards : UpdateShard(shard_id)
    \/ BatchDone
    \/ EndOfStream
    \/ LastBatchDone
    \/ Cleanup

SpecClosed == Init /\ [][NextClosed]_vars

\* One run with a batch size of the caller's choice.
SpecSizes == InitSizes /\ [][Next]_vars

\* add_documents is called on an index that holds no document.
AddFirstDocuments == doc_lengths = EmptyDict /\ AddDocuments

\* The stream's first document, with a raw text as its content.
NextRawDocument(content) == batch = <<>> /\ NextDocument(1, content)

\* One run that ingests one document, of any raw text.
NextText ==
    \/ AddFirstDocuments
    \/ \E content \in RawTexts : NextRawDocument(content)
    \/ \E shard_id \in Shards : UpdateShard(shard_id)
    \/ EndOfStream
    \/ LastBatchDone

SpecText == Init /\ [][NextText]_vars

\* One run over a directory whose files may get damaged.
NextFiles == Next \/ CorruptFile

SpecFiles == Init /\ [][NextFiles]_vars

(* ------------------------- RankingHeap, the calls ---------------------- *)
Relevances == 1 .. MaxRelevance
Ks == 0 .. MaxK

\* add_page(relevance, page), page being the number of the call.
AddPage(relevance) ==
    /\ Len(added) < MaxAdds
    /\ LET out == add_page(heap, max_heap_size, relevance, Len(added) + 1)
       IN  /\ heap' = out.heap
           /\ cached_results' = IF out.cleared THEN EmptyDict ELSE cached_results
           /\ heap_result' = [op |-> "add_page", raised |-> "", value |-> out.value]
    /\ added' = Append(added, relevance)
    /\ UNCHANGED <<cache_queue, max_heap_size, index_vars, trie_vars, task_vars,
                   engine_vars>>

\* peek_top_results(k)
PeekTopResults(k) ==
    /\ LET out == PeekOutcome(heap, cached_results, cache_queue, CacheSize, k)
       IN  /\ cached_results' = out.cached
           /\ cache_queue' = out.queue
           /\ heap_result' = [op |-> "peek_top_results", raised |-> out.raised,
                              value |-> out.value]
    /\ UNCHANGED <<heap, max_heap_size, added, index_vars, trie_vars, task_vars,
                   engine_vars>>

\* get_top_results(k): the cache is cleared, min(k, len) pages are popped.
GetTopResults(k) ==
    /\ LET out == PopPages(heap, Min(k, Len(heap)))
       IN  /\ heap' = out.heap
           /\ heap_result' = [op |-> "get_top_results", raised |-> "",
                              value |-> out.pages]
    /\ cached_results' = EmptyDict
    /\ UNCHANGED <<cache_queue, max_heap_size, added, index_vars, trie_vars, task_vars,
                   engine_vars>>

\* clear_cache(): the cached lists and the queue of their keys are emptied.
ClearCache ==
    /\ cached_results' = EmptyDict
    /\ cache_queue' = <<>>
    /\ heap_result' = [op |-> "clear_cache", raised |-> "", value |-> <<>>]
    /\ UNCHANGED <<heap, max_heap_size, added, index_vars, trie_vars, task_vars,
                   engine_vars>>

\* A heap of any max_heap_size, None included.
InitHeap ==
    /\ NewIndex
    /\ batch_size = BatchSize
    /\ \E limit \in {NoneValue} \cup {Some(n) : n \in 0 .. MaxHeapSize} :
          NewRankingHeap(limit)
    /\ NewTrie
    /\ NewThreads
    /\ NewSearchEngine

NextHeap ==
    \/ \E relevance \in Relevances : AddPage(relevance)
    \/ \E k \in Ks : PeekTopResults(k)
    \/ \E k \in Ks : GetTopResults(k)
    \/ ClearCache

SpecHeap == InitHeap /\ [][NextHeap]_vars

(* ----------------------------- Trie, the calls ------------------------- *)
\* insert(word); the empty word returns at once.
Insert(word) ==
    /\ trie.size < MaxInserts
    /\ IF word = <<>>
       THEN UNCHANGED <<trie, prefix_cache, inserted>>
       ELSE /\ trie' = insert(trie, word)
            /\ prefix_cache' = InvalidateCache(prefix_cache, word)
            /\ inserted' = inserted \cup {word}
    /\ UNCHANGED <<index_vars, heap_vars, task_vars, engine_vars>>

\* search_prefix(prefix)
SearchPrefix(prefix) ==
    /\ prefix_cache' = search_prefix(trie, prefix_cache, prefix).cache
    /\ UNCHANGED <<trie, inserted, index_vars, heap_vars, task_vars, engine_vars>>

NextTrie ==
    \/ \E word \in TrieWords : Insert(word)
    \/ \E prefix \in TrieWords : SearchPrefix(prefix)

SpecTrie == Init /\ [][NextTrie]_vars

(* --------------------------- SearchEngine ------------------------------ *)
\* Titles of at most one word.
Titles == {w \in TrieWords : Len(w) <= 1}

\* set(re.findall(r'\w+', title.lower())) for such a title.
TitleWords(title) == IF title = <<>> THEN {} ELSE {StrLower(title)}

\* SearchEngine.add_document(title, content): the next id is taken, the
\* document is stored, indexed under that id, and the words of the title are
\* inserted into the trie.
AddDocument(title, content) ==
    /\ IngestCount < MaxIngest
    /\ current_doc_id < MaxDocs
    /\ current_doc_id' = current_doc_id + 1
    /\ doc_store' = Put(doc_store, current_doc_id + 1, content)
    /\ doc_titles' = Put(doc_titles, current_doc_id + 1, title)
    /\ AddDocumentsRun(<<<<current_doc_id + 1, content>>>>)
    /\ IF TitleWords(title) = {}
       THEN UNCHANGED <<trie, prefix_cache, inserted>>
       ELSE /\ trie' = insert(trie, StrLower(title))
            /\ prefix_cache' = InvalidateCache(prefix_cache, StrLower(title))
            /\ inserted' = inserted \cup {StrLower(title)}
    /\ UNCHANGED <<heap_vars, task_vars>>

\* The process ends and a later run constructs SearchEngine(): the index
\* over the default base_path loads what the run before has saved, the
\* trie, the heap and the stores are new, and current_doc_id is 0.
NewRun ==
    /\ pc = "idle"
    /\ LoadError = ""
    /\ hash_seed' \in Seeds
    /\ load_metadata
    /\ last_error' = ""
    /\ trie' = [nodes |-> [p \in {<<>>} |-> TrieNode], size |-> 0, node_count |-> 0]
    /\ prefix_cache' = <<>>
    /\ inserted' = {}
    /\ heap' = <<>>
    /\ cached_results' = EmptyDict
    /\ cache_queue' = <<>>
    /\ added' = <<>>
    /\ heap_result' = [op |-> "__init__", raised |-> "", value |-> <<>>]
    /\ current_doc_id' = 0
    /\ doc_store' = EmptyDict
    /\ doc_titles' = EmptyDict
    /\ UNCHANGED <<shard_file, metadata_file, pc, batch, futures, ingested,
                   flushed, batch_size, max_heap_size, task_vars>>

NextEngine ==
    \/ \E title \in Titles, content \in Texts : AddDocument(title, content)
    \/ NewRun

SpecEngine == Init /\ [][NextEngine]_vars

(* ------------------------- threads and tasks --------------------------- *)
\* Several threads call add_documents on one index while queries run. The
\* pool runs up to max_workers = num_shards tasks at a time; a task takes
\* the shard's _lock, applies its occurrences one by one and sets is_dirty.

\* The words of a token list in the order of their first occurrence: the
\* order of the keys of word_to_shard_mapping[shard_id].
RECURSIVE FirstSeen(_, _)
FirstSeen(words, seen) ==
    IF words = <<>> THEN seen
    ELSE FirstSeen(Tail(words),
                   IF words[1] \in Range(seen) THEN seen ELSE Append(seen, words[1]))

RECURSIVE TokensOf(_)
TokensOf(docs) ==
    IF docs = <<>> THEN <<>>
    ELSE preprocess_text(docs[1][2]) \o TokensOf(Tail(docs))

\* for word, occurrences in word_data.items(): for doc_id, position in
\* occurrences: the (word, doc_id, position) triples in the order the task
\* applies them.
RECURSIVE TodoFrom(_, _)
TodoFrom(docs, words) ==
    IF words = <<>> THEN <<>>
    ELSE LET occ == Occurrences(docs, words[1])
         IN  [i \in DOMAIN occ |-> <<words[1], occ[i][1], occ[i][2]>>]
             \o TodoFrom(docs, Tail(words))

TodoOf(seed, docs, shard_id) ==
    LET mine(w) == ShardIdFor(seed, w) = shard_id
    IN  TodoFrom(docs, SelectSeq(FirstSeen(TokensOf(docs), <<>>), mine))

\* if doc_id not in shard.index[word]: shard.index[word][doc_id] = []
\* shard.index[word][doc_id].append(position)
ApplyOne(shard_index, occurrence) ==
    LET word == occurrence[1]
        old == IF word \in DOMAIN shard_index THEN shard_index[word] ELSE EmptyDict
    IN  Put(shard_index, word, AppendPosition(old, occurrence[2], occurrence[3]))

\* The tasks a worker of the pool is running: update_shard tasks and
\* process_term tasks share the pool.
Busy == {cs \in Callers \X Shards : tasks[cs[1]][cs[2]].state \in {"waiting", "locked"}}

BusyTerms ==
    UNION {{<<t, i>> : i \in {j \in DOMAIN searching[t].futures :
                                 searching[t].futures[j].state = "running"}} :
           t \in Searchers}

WorkerFree == Cardinality(Busy) + Cardinality(BusyTerms) < NumShards

\* A with block that keeps the lock when it is left.
StillHeld(locks, shard_id) == locks

\* The end of the with block: the lock of the shard is free again.
Released(locks, shard_id) == [locks EXCEPT ![shard_id] = 0]

\* A lock that anyone may take at any time.
LockFreeAlways(shard_id) == TRUE

\* with shard._lock: the lock can be taken when nobody holds it.
LockFree(shard_id) == lock[shard_id] = 0

\* Thread c calls add_documents, once, with one batch: the first pass records
\* the lengths and collects the occurrences, then one task per shard that
\* received work is submitted.
CallAddDocuments(c, docs) ==
    /\ calls[c].pc = "idle"
    /\ executor = "running"
    /\ pc = "idle"
    /\ doc_lengths' = RecordLengths(doc_lengths, docs)
    /\ ingested' = NoteIngested(ingested, docs)
    /\ tasks' = [tasks EXCEPT ![c] =
                    [s \in Shards |->
                        IF s \in ShardsWithWork(hash_seed, docs)
                        THEN [state |-> "queued", todo |-> TodoOf(hash_seed, docs, s),
                              done |-> 0]
                        ELSE NoTask]]
    /\ calls' = [calls EXCEPT ![c] = [pc |-> "wait", docs |-> docs, seen |-> 0]]
    /\ UNCHANGED <<index, is_dirty, total_docs, executor, hash_seed, shard_file,
                   metadata_file, pc, batch, futures, flushed, last_error,
                   batch_size, lock, last_read, searching, heap_vars, trie_vars,
                   engine_vars>>

\* A free worker of the pool takes a submitted task and comes to the lock.
TaskStart(c, s) ==
    /\ tasks[c][s].state = "queued"
    /\ WorkerFree
    /\ tasks' = [tasks EXCEPT ![c][s].state = "waiting"]
    /\ UNCHANGED <<index_vars, lock, calls, last_read, searching, heap_vars, trie_vars,
                   engine_vars>>

\* with shard._lock:
TaskAcquire(c, s) ==
    /\ tasks[c][s].state = "waiting"
    /\ LockFree(s)
    /\ lock' = [lock EXCEPT ![s] = c]
    /\ tasks' = [tasks EXCEPT ![c][s].state = "locked"]
    /\ UNCHANGED <<index_vars, calls, last_read, searching, heap_vars, trie_vars,
                   engine_vars>>

\* One turn of the inner loop of update_shard.
TaskApply(c, s) ==
    /\ tasks[c][s].state = "locked"
    /\ tasks[c][s].todo # <<>>
    /\ index' = [index EXCEPT ![s] = ApplyOne(@, tasks[c][s].todo[1])]
    /\ tasks' = [tasks EXCEPT ![c][s].todo = Tail(@), ![c][s].done = @ + 1]
    /\ UNCHANGED <<is_dirty, doc_lengths, total_docs, executor, hash_seed,
                   shard_file, metadata_file, pc, batch, futures, ingested,
                   flushed, last_error, batch_size, lock, calls, last_read, searching,
                   heap_vars, trie_vars, engine_vars>>

\* shard.is_dirty = True, and the with block is left.
TaskRelease(c, s) ==
    /\ tasks[c][s].state = "locked"
    /\ tasks[c][s].todo = <<>>
    /\ is_dirty' = MarkedDirty(is_dirty, s)
    /\ lock' = Released(lock, s)
    /\ tasks' = [tasks EXCEPT ![c][s] = NoTask]
    /\ UNCHANGED <<index, doc_lengths, total_docs, executor, hash_seed,
                   shard_file, metadata_file, pc, batch, futures, ingested,
                   flushed, last_error, batch_size, calls, last_read, searching,
                   heap_vars, trie_vars, engine_vars>>

\* future.result() has returned for every task of the batch; the thread
\* reads self.total_docs for the += ...
CallRead(c) ==
    /\ calls[c].pc = "wait"
    /\ \A s \in Shards : tasks[c][s].state = "none"
    /\ calls' = [calls EXCEPT ![c].pc = "add", ![c].seen = total_docs]
    /\ UNCHANGED <<index_vars, lock, tasks, last_read, searching, heap_vars, trie_vars,
                   engine_vars>>

\* ... and stores the sum.
CallWrite(c) ==
    /\ calls[c].pc = "add"
    /\ total_docs' = calls[c].seen + Len(calls[c].docs)
    /\ calls' = [calls EXCEPT ![c].pc = "save"]
    /\ UNCHANGED <<index, is_dirty, doc_lengths, executor, hash_seed, shard_file,
                   metadata_file, pc, batch, futures, ingested, flushed,
                   last_error, batch_size, lock, tasks, last_read, searching, heap_vars,
                   trie_vars, engine_vars>>

\* self._save_metadata(), and add_documents returns.
CallSave(c) ==
    /\ calls[c].pc = "save"
    /\ save_metadata(total_docs)
    /\ calls' = [calls EXCEPT ![c] = [pc |-> "returned", docs |-> <<>>, seen |-> 0]]
    /\ UNCHANGED <<index, doc_lengths, total_docs, executor, hash_seed, pc, batch,
                   futures, ingested, flushed, last_error, batch_size, lock, tasks,
                   last_read, searching, heap_vars, trie_vars, engine_vars>>

\* A query reads the mapping of the shard of word: shard.index of
\* process_term and of phrase_search, read as it is at that moment.
QueryRead(word) ==
    /\ executor = "running"
    /\ LET s == get_shard_for_word(word)
           holder == lock[s]
       IN  last_read' = [taken |-> TRUE, locked |-> holder # 0,
                         partial |-> /\ holder # 0
                                     /\ tasks[holder][s].done > 0
                                     /\ tasks[holder][s].todo # <<>>]
    /\ UNCHANGED <<index_vars, lock, tasks, calls, searching, heap_vars, trie_vars,
                   engine_vars>>

\* The batches the threads hand in: one new document of several tokens.
CallDocs == {<<<<NextId, t>>>> : t \in {x \in Texts : Len(preprocess_text(x)) > 1}}

NextTasks ==
    \/ \E c \in Callers : \E docs \in CallDocs : CallAddDocuments(c, docs)
    \/ \E c \in Callers : \E s \in Shards : TaskStart(c, s)
    \/ \E c \in Callers : \E s \in Shards : TaskAcquire(c, s)
    \/ \E c \in Callers : \E s \in Shards : TaskApply(c, s)
    \/ \E c \in Callers : \E s \in Shards : TaskRelease(c, s)
    \/ \E c \in Callers : CallRead(c)
    \/ \E c \in Callers : CallWrite(c)
    \/ \E c \in Callers : CallSave(c)
    \/ \E word \in Terms : QueryRead(word)

SpecTasks == Init /\ [][NextTasks]_vars

(* ------------------------------ search tasks --------------------------- *)
\* search() at the grain of its futures: one process_term task per query
\* term is submitted to the pool, then the caller takes the results in the
\* order of the terms; a result that is an exception is raised at once.

\* The tasks of the last search() call of thread t that are not finished.
LeftTerms(t) ==
    {i \in DOMAIN searching[t].futures : searching[t].futures[i].state # "done"}

NoQueries == \A t \in Searchers : searching[t] = NoSearch

\* `term not in shard.index`: the test creates no key.
Contains(shard_index, word) == word \in DOMAIN shard_index

\* shard.index[word] on the defaultdict(dict): a key that is missing is
\* created with an empty dict.
Lookup(shard_index, word) ==
    IF word \in DOMAIN shard_index THEN shard_index
    ELSE Put(shard_index, word, EmptyDict)

\* A test that finds every word.
ContainsAnything(idx, seed, word) == TRUE

\* `if term not in shard.index` of process_term, `if word not in shard.index`
\* of phrase_search.
InShard(idx, seed, word) == Contains(idx[ShardIdFor(seed, word)], word)

\* The shards after process_term(term): the term is looked up in its shard
\* when the test has found it.
IndexAfterTerm(idx, seed, term) ==
    IF ~InShard(idx, seed, term) THEN idx
    ELSE [idx EXCEPT ![ShardIdFor(seed, term)] = Lookup(@, term)]

\* The shards after phrase_search: the words are tested and looked up in
\* their order, up to the first one that is missing.
RECURSIVE IndexAfterPhrase(_, _, _)
IndexAfterPhrase(idx, seed, words) ==
    IF words = <<>> THEN idx
    ELSE IF ~InShard(idx, seed, words[1]) THEN idx
    ELSE IndexAfterPhrase([idx EXCEPT ![ShardIdFor(seed, words[1])] =
                               Lookup(@, words[1])], seed, Tail(words))

\* query_terms = self.preprocess_text(query) ...
\* futures = [self.executor.submit(process_term, term) for term in query_terms]
SearchCall(t, query, use_tfidf) ==
    /\ searching[t].pc = "idle"
    /\ LeftTerms(t) = {}
    /\ LET query_terms == preprocess_text(query)
       IN  searching' = [searching EXCEPT ![t] =
             IF query_terms = <<>>
             THEN [NoSearch EXCEPT !.outcome = Returned(<<>>)]
             ELSE IF executor # "running"
             THEN [NoSearch EXCEPT !.outcome = Raised("RuntimeError")]
             ELSE [pc |-> "wait", terms |-> query_terms, use_tfidf |-> use_tfidf,
                   futures |-> [i \in DOMAIN query_terms |->
                                   [state |-> "pending", result |-> Returned(<<>>)]],
                   at |-> 1, scores |-> <<>>, outcome |-> searching[t].outcome,
                   found |-> {}]]
    /\ UNCHANGED <<index_vars, lock, tasks, calls, last_read, heap_vars, trie_vars,
                   engine_vars>>

\* A free worker of the pool takes a process_term task.
TermTaskStart(t, i) ==
    /\ i \in DOMAIN searching[t].futures
    /\ searching[t].futures[i].state = "pending"
    /\ WorkerFree
    /\ searching' = [searching EXCEPT ![t].futures[i].state = "running"]
    /\ UNCHANGED <<index_vars, lock, tasks, calls, last_read, heap_vars, trie_vars,
                   engine_vars>>

\* process_term(term) runs on the memory as it is and sets its future.
TermTaskRun(t, i) ==
    /\ i \in DOMAIN searching[t].futures
    /\ searching[t].futures[i].state = "running"
    /\ searching' = [searching EXCEPT ![t].futures[i] =
                        [state |-> "done",
                         result |-> process_term(Memory, searching[t].terms[i],
                                                 searching[t].use_tfidf)]]
    /\ index' = IndexAfterTerm(index, hash_seed, searching[t].terms[i])
    /\ UNCHANGED <<is_dirty, doc_lengths, total_docs, executor, hash_seed,
                   shard_file, metadata_file, pc, batch, futures, ingested,
                   flushed, last_error, batch_size, lock, tasks, calls, last_read,
                   heap_vars, trie_vars, engine_vars>>

\* for future in futures: term_scores = future.result(); scores[doc_id] += score
\* and, after the last one, the sort and the cut.
SearchAwait(t) ==
    /\ searching[t].pc = "wait"
    /\ searching[t].futures[searching[t].at].state = "done"
    /\ LET result == searching[t].futures[searching[t].at].result
           merged == AddScores(searching[t].scores, result.value)
       IN  searching' = [searching EXCEPT ![t] =
             IF result.raised # ""
             THEN [@ EXCEPT !.pc = "idle", !.outcome = result]
             ELSE IF @.at < Len(@.futures)
             THEN [@ EXCEPT !.at = @ + 1, !.scores = merged]
             ELSE [@ EXCEPT
                     !.pc = "idle", !.scores = merged,
                     !.outcome = Returned(Truncate(SortedByScore(merged, Len(merged)),
                                                   DefaultMaxResults))]]
    /\ UNCHANGED <<index_vars, lock, tasks, calls, last_read, heap_vars, trie_vars,
                   engine_vars>>

\* The caller is done with what the query gave back, and the futures of the
\* call, all finished, are dropped.
SearchForgotten(t) ==
    /\ searching[t].pc = "idle"
    /\ searching[t] # NoSearch
    /\ LeftTerms(t) = {}
    /\ searching' = [searching EXCEPT ![t] = NoSearch]
    /\ UNCHANGED <<index_vars, lock, tasks, calls, last_read, heap_vars, trie_vars,
                   engine_vars>>

\* phrase_search(phrase) runs in the calling thread, from its first line to
\* its return.
PhraseSearch(t, phrase) ==
    /\ searching[t].pc = "idle"
    /\ LeftTerms(t) = {}
    /\ searching' = [searching EXCEPT ![t] =
                        [NoSearch EXCEPT !.terms = preprocess_text(phrase),
                                         !.found = phrase_search(phrase).value]]
    /\ index' = IndexAfterPhrase(index, hash_seed, preprocess_text(phrase))
    /\ UNCHANGED <<is_dirty, doc_lengths, total_docs, executor, hash_seed,
                   shard_file, metadata_file, pc, batch, futures, ingested,
                   flushed, last_error, batch_size, lock, tasks, calls, last_read,
                   heap_vars, trie_vars, engine_vars>>

SearchSteps(t) ==
    \/ \E i \in 1 .. MaxTerms : TermTaskStart(t, i)
    \/ \E i \in 1 .. MaxTerms : TermTaskRun(t, i)
    \/ SearchAwait(t)
    \/ SearchForgotten(t)

\* One thread that ingests and searches in turn.
NextSearch ==
    \/ NoQueries /\ Next
    \/ \E query \in Texts, use_tfidf \in BOOLEAN :
          pc = "idle" /\ SearchCall(1, query, use_tfidf)
    \/ SearchSteps(1)

SpecSearch == Init /\ [][NextSearch]_vars

(* ------------------------- concurrent queries -------------------------- *)
\* Two threads query an index that is ingested into between the queries,
\* never during one.
\* The queries: each of the two words, which the index may or may not hold,
\* and the two together.
QueryTexts ==
    {q \in Texts : preprocess_text(q) \in {<<<<"a">>>>, <<<<"b">>>>, <<<<"a">>, <<"b">>>>}}

NextQueries ==
    \/ \E content \in Texts :
          /\ NoQueries
          /\ Cardinality(UsedIds) < MaxIngest
          /\ AddDocumentsCall(<<<<NextId, content>>>>)
    \/ \E t \in Searchers : \E query \in QueryTexts :
          searching[t] = NoSearch /\ SearchCall(t, query, TRUE)
    \/ \E t \in Searchers : \E phrase \in QueryTexts :
          searching[t] = NoSearch /\ PhraseSearch(t, phrase)
    \/ \E t \in Searchers : SearchSteps(t)

SpecQueries == Init /\ [][NextQueries]_vars

(* --------------------------- the shared pool --------------------------- *)
\* Two threads ingest and a third one searches, each with one call, all
\* through the one pool of num_shards workers.

\* The text of the two words a and b: a batch that brings work for two
\* locks when the words are routed apart. The query is for the word a.
PoolTexts == {t \in Texts : preprocess_text(t) = <<<<"a">>, <<"b">>>>}

PoolQueries == {t \in Texts : preprocess_text(t) = <<<<"a">>>>}

NextPool ==
    \/ \E c \in Callers : \E t \in PoolTexts : CallAddDocuments(c, <<<<NextId, t>>>>)
    \/ \E c \in Callers : \E s \in Shards : TaskStart(c, s)
    \/ \E c \in Callers : \E s \in Shards : TaskAcquire(c, s)
    \/ \E c \in Callers : \E s \in Shards : TaskApply(c, s)
    \/ \E c \in Callers : \E s \in Shards : TaskRelease(c, s)
    \/ \E c \in Callers : CallRead(c)
    \/ \E c \in Callers : CallWrite(c)
    \/ \E c \in Callers : CallSave(c)
    \/ \E query \in PoolQueries : NoQueries /\ SearchCall(1, query, TRUE)
    \/ \E i \in 1 .. MaxTerms : TermTaskStart(1, i)
    \/ \E i \in 1 .. MaxTerms : TermTaskRun(1, i)
    \/ SearchAwait(1)

SpecPool == Init /\ [][NextPool]_vars

\* The scheduler lets some thread that can take a step take one.
FairSpecPool == SpecPool /\ WF_vars(NextPool)

(* ------------------------- what the claims speak of -------------------- *)

Quiescent == pc = "idle"
Running == executor = "running"

InCorpus(d) == ingested[d] # <<>>
Corpus == {d \in DocIds : InCorpus(d)}
OnceEach == \A d \in DocIds : Len(ingested[d]) <= 1

\* The token sequence of a document that was ingested once.
Tokens(d) == ingested[d][1]

CountOf(word, tokens) == Cardinality({i \in DOMAIN tokens : tokens[i] = word})

\* words, at least one, stand at consecutive positions of tokens.
ContainsRun(tokens, words) ==
    /\ words # <<>>
    /\ \E k \in 0 .. (Len(tokens) - Len(words)) :
          \A i \in DOMAIN words : tokens[k + i] = words[i]

NoLetter(text) == \A i \in DOMAIN text : text[i] \notin LowerAZ \cup UpperAZ

MaxResultsChoices == (0 .. MaxIngest) \cup {DefaultMaxResults}

DocsOf(value) == {value[i].doc : i \in DOMAIN value}
ScoreOf(value, d) ==
    IF d \in DocsOf(value)
    THEN value[CHOOSE i \in DOMAIN value : value[i].doc = d].score
    ELSE Zero
RankOf(value, d) == CHOOSE i \in DOMAIN value : value[i].doc = d

\* The memory of the index whose cleanup() took the snapshot, still running.
FlushedMemory == [index |-> flushed.index, doc_lengths |-> flushed.doc_lengths,
                  total_docs |-> flushed.total_docs,
                  hash_seed |-> flushed.hash_seed, executor |-> "running"]

(* -------------------------------- C1 ----------------------------------- *)
\* C1: after add_documents calls and cleanup(), a fresh index over the same
\* base_path answers every search and every phrase search as the original
\* index did before the flush.
C1_RoundTrip ==
    (flushed.taken /\ Quiescent /\ Running) =>
        /\ \A q \in Texts, tfidf \in BOOLEAN, mx \in MaxResultsChoices :
              SearchIn(Memory, q, tfidf, mx) = SearchIn(FlushedMemory, q, tfidf, mx)
        /\ \A q \in Texts :
              PhraseSearchIn(Memory, q) = PhraseSearchIn(FlushedMemory, q)

(* -------------------------------- C2 ----------------------------------- *)
\* C2: the shard a term is routed to never changes, neither between calls
\* nor from one run of the process to the next.
C2_RoutingStable ==
    [][\A t \in Terms : get_shard_for_word(t)' = get_shard_for_word(t)]_vars

(* -------------------------------- C3 ----------------------------------- *)
\* C3: when every document id was ingested once, phrase_search(p) returns
\* exactly the documents whose tokens contain the tokens of p as a
\* consecutive run, however many candidates there are.
C3_PhraseExact ==
    (Quiescent /\ OnceEach) =>
        \A p \in Texts :
            preprocess_text(p) # <<>> =>
                phrase_search(p) =
                    Returned({d \in Corpus : ContainsRun(Tokens(d), preprocess_text(p))})

\* Two candidates, more than one group holds, of which only one has the
\* two words of the phrase in this order.
C3_Witness ==
    /\ Quiescent /\ OnceEach
    /\ \E p \in Texts, d1 \in Corpus, d2 \in Corpus :
          /\ Len(preprocess_text(p)) = 2
          /\ \A i \in 1 .. 2 : HasWord(Memory, preprocess_text(p)[i])
          /\ {d1, d2} \subseteq Candidates(Memory, preprocess_text(p))
          /\ Cardinality(Candidates(Memory, preprocess_text(p))) > PhraseBatch
          /\ d1 \in phrase_search(p).value
          /\ d2 \notin phrase_search(p).value

(* -------------------------------- C4 ----------------------------------- *)
\* C4: after any sequence of add_documents calls total_docs is the number
\* of distinct document ids ever ingested.
C4_TotalDocsDistinct == Quiescent => total_docs = Cardinality(Corpus)

(* -------------------------------- C5 ----------------------------------- *)
\* The queries that consist of the one term t.
QueriesFor(t) == {q \in Texts : preprocess_text(q) = <<t>>}

OnlyIn(t, d) ==
    /\ t \in Range(Tokens(d))
    /\ \A e \in Corpus \ {d} : t \notin Range(Tokens(e))

\* C5 as claimed: a term that occurs in d alone finds d, and only d, with a
\* strictly positive score.
C5_UniqueTermPositive ==
    (Quiescent /\ Running /\ OnceEach) =>
        \A d \in Corpus, t \in Terms :
            OnlyIn(t, d) =>
                \A q \in QueriesFor(t) :
                    LET r == search(q, TRUE, DefaultMaxResults)
                    IN  /\ r.raised = ""
                        /\ DocsOf(r.value) = {d}
                        /\ ScorePositive(r.value[1].score)

\* C5 amended: it finds d and only d; the score is strictly positive when
\* the corpus holds another document and is zero when d is the only one.
C5_UniqueTermAmended ==
    (Quiescent /\ Running /\ OnceEach) =>
        \A d \in Corpus, t \in Terms :
            OnlyIn(t, d) =>
                \A q \in QueriesFor(t) :
                    LET r == search(q, TRUE, DefaultMaxResults)
                    IN  /\ r.raised = ""
                        /\ Len(r.value) = 1
                        /\ r.value[1].doc = d
                        /\ IF Cardinality(Corpus) >= 2
                           THEN ScorePositive(r.value[1].score)
                           ELSE r.value[1].score = Zero

C5_Witness ==
    /\ Quiescent /\ Running /\ OnceEach
    /\ Cardinality(Corpus) >= 2
    /\ \E d \in Corpus, t \in Terms :
          /\ OnlyIn(t, d)
          /\ \E q \in QueriesFor(t) :
                /\ DocsOf(search(q, TRUE, DefaultMaxResults).value) = {d}
                /\ ScorePositive(search(q, TRUE, DefaultMaxResults).value[1].score)

(* -------------------------------- C6 ----------------------------------- *)
\* A and B were ingested once, have the same length and t occurs more often
\* in A than in B.
MoreOften(t, A, B) ==
    /\ A # B
    /\ Len(Tokens(A)) = Len(Tokens(B))
    /\ CountOf(t, Tokens(A)) > CountOf(t, Tokens(B))

Outranks(value, A, B) ==
    /\ A \in DocsOf(value)
    /\ ScoreLess(ScoreOf(value, B), ScoreOf(value, A))
    /\ B \in DocsOf(value) => RankOf(value, A) < RankOf(value, B)

\* C6 as claimed: A scores strictly higher than B and is ranked before it.
C6_TfMonotone ==
    (Quiescent /\ Running /\ OnceEach) =>
        \A A \in Corpus, B \in Corpus, t \in Terms :
            MoreOften(t, A, B) =>
                \A q \in QueriesFor(t) :
                    LET r == search(q, TRUE, DefaultMaxResults)
                    IN  r.raised = "" /\ Outranks(r.value, A, B)

SomeDocLacks(t) == \E d \in Corpus : t \notin Range(Tokens(d))

\* C6 amended: so it is when some document of the corpus does not contain
\* t; when every document contains t the idf is ln 1 = 0 and A and B, like
\* every other document, score 0.
C6_TfMonotoneAmended ==
    (Quiescent /\ Running /\ OnceEach) =>
        \A A \in Corpus, B \in Corpus, t \in Terms :
            MoreOften(t, A, B) =>
                \A q \in QueriesFor(t) :
                    LET r == search(q, TRUE, DefaultMaxResults)
                    IN  /\ r.raised = ""
                        /\ IF SomeDocLacks(t)
                           THEN Outranks(r.value, A, B)
                           ELSE \A i \in DOMAIN r.value : r.value[i].score = Zero

C6_Witness ==
    /\ Quiescent /\ Running /\ OnceEach
    /\ \E A \in Corpus, B \in Corpus, t \in Terms :
          /\ MoreOften(t, A, B)
          /\ CountOf(t, Tokens(B)) >= 1
          /\ SomeDocLacks(t)
          /\ \E q \in QueriesFor(t) :
                Outranks(search(q, TRUE, DefaultMaxResults).value, A, B)

(* -------------------------------- C7 ----------------------------------- *)
\* C7: a query without a letter, which tokenizes to no term, gets the empty
\* list from search and the empty set from phrase_search, without an error,
\* whatever the index holds.
C7_EmptyQuery ==
    \A q \in Texts :
        NoLetter(q) =>
            /\ \A tfidf \in BOOLEAN, mx \in MaxResultsChoices :
                  search(q, tfidf, mx) = Returned(<<>>)
            /\ phrase_search(q) = Returned({})

C7_Witness ==
    /\ total_docs > 0
    /\ \E s \in Shards : DOMAIN index[s] # {}
    /\ search(<<"1">>, TRUE, DefaultMaxResults) = Returned(<<>>)
    /\ phrase_search(<<"1">>) = Returned({})

(* -------------------------------- C8 ----------------------------------- *)
\* C8: while total_docs is 0 every search returns the empty list and none
\* raises.
C8_NoDocsNoError ==
    (total_docs = 0 /\ Running) =>
        \A q \in Texts, tfidf \in BOOLEAN, mx \in MaxResultsChoices :
            search(q, tfidf, mx) = Returned(<<>>)

(* -------------------------------- C9 ----------------------------------- *)
NonIncreasing(value) ==
    \A i \in DOMAIN value, j \in DOMAIN value :
        i < j => ~ScoreLess(value[i].score, value[j].score)

\* value holds the highest-scoring entries of merged.
TopOf(value, merged) ==
    /\ \A i \in DOMAIN value : value[i] \in Range(merged)
    /\ \A e \in Range(merged) :
          e \notin Range(value) =>
              \A i \in DOMAIN value : ~ScoreLess(value[i].score, e.score)

\* C9: search returns its pairs by non-increasing score, no document twice,
\* min(max_results, documents scored) of them, and they are the
\* highest-scoring documents of the merged score map.
C9_RankedTop ==
    \A q \in Texts, tfidf \in BOOLEAN, mx \in MaxResultsChoices :
        LET r == search(q, tfidf, mx)
            merged == MergedScores(Memory, q, tfidf)
        IN  r.raised = "" =>
                /\ NonIncreasing(r.value)
                /\ Cardinality(DocsOf(r.value)) = Len(r.value)
                /\ Len(r.value) <= mx
                /\ merged.raised = ""
                /\ Len(r.value) = Min(mx, Len(merged.value))
                /\ TopOf(r.value, merged.value)

\* A search cut to one result that keeps the higher of two different scores.
C9_Witness ==
    \E q \in Texts :
        LET r == search(q, TRUE, 1)
            merged == MergedScores(Memory, q, TRUE)
        IN  /\ r.raised = "" /\ merged.raised = ""
            /\ Len(merged.value) >= 2
            /\ Len(r.value) = 1
            /\ \E e \in Range(merged.value) : ScoreLess(e.score, r.value[1].score)

(* -------------------------------- C10 ---------------------------------- *)
\* The query terms without their repetitions, in the order of first occurrence.
RECURSIVE Distinct(_)
Distinct(words) ==
    IF words = <<>> THEN <<>>
    ELSE LET front == Distinct(SubSeq(words, 1, Len(words) - 1))
             last == words[Len(words)]
         IN  IF last \in Range(front) THEN front ELSE Append(front, last)

HasRepetition(q) == Distinct(preprocess_text(q)) # preprocess_text(q)

RECURSIVE SumScores(_, _, _, _)
SumScores(words, tfidf, d, i) ==
    IF i > Len(words) THEN Zero
    ELSE ScoreAdd(ScoreOf(search(words[i], tfidf, DefaultMaxResults).value, d),
                  SumScores(words, tfidf, d, i + 1))

PairwiseDistinct(words) ==
    \A i \in DOMAIN words, j \in DOMAIN words : i # j => words[i] # words[j]

\* The terms of the query that document d contains.
TermsIn(words, d) == {w \in Range(words) : w \in Range(Tokens(d))}

Matching(words) == {d \in Corpus : TermsIn(words, d) # {}}

\* C11: without TF-IDF a query of pairwise distinct terms returns, up to
\* max_results, exactly the documents that contain one of its terms, each with
\* the number of query terms it contains as its score, and a document that
\* matches more terms is never behind one that matches fewer.
C11_FlatCounts ==
    (Quiescent /\ Running /\ OnceEach) =>
        \A q \in Texts, mx \in MaxResultsChoices :
            LET words == preprocess_text(q)
                r == search(q, FALSE, mx)
            IN  (words # <<>> /\ PairwiseDistinct(words)) =>
                    /\ r.raised = ""
                    /\ DocsOf(r.value) \subseteq Matching(words)
                    /\ Len(r.value) = Min(mx, Cardinality(Matching(words)))
                    /\ \A i \in DOMAIN r.value :
                          r.value[i].score =
                              Flat(Cardinality(TermsIn(words, r.value[i].doc)))
                    /\ \A i \in DOMAIN r.value, d \in Matching(words) :
                          d \notin DocsOf(r.value) =>
                              Cardinality(TermsIn(words, d))
                                  <= Cardinality(TermsIn(words, r.value[i].doc))
                    /\ \A i \in DOMAIN r.value, j \in DOMAIN r.value :
                          i < j => Cardinality(TermsIn(words, r.value[i].doc))
                                       >= Cardinality(TermsIn(words, r.value[j].doc))

\* A query of two terms: a document that holds both, inserted into the score
\* map after one that holds a single term, is returned before it with score 2.
C11_Witness ==
    /\ Quiescent /\ Running /\ OnceEach
    /\ \E q \in Texts, d \in Corpus, e \in Corpus :
          LET words == preprocess_text(q)
              r == search(q, FALSE, DefaultMaxResults)
          IN  /\ Len(words) = 2 /\ PairwiseDistinct(words)
              /\ e < d
              /\ Cardinality(TermsIn(words, d)) = 2
              /\ Cardinality(TermsIn(words, e)) = 1
              /\ r.raised = ""
              /\ r.value[1] = [doc |-> d, score |-> Flat(2)]
              /\ ScoreOf(r.value, e) = Flat(1)

(* -------------------------------- C12 ---------------------------------- *)
\* Queries in lower, upper and mixed case: one word, or an a and a b.
CaseWords == {<<"a">>, <<"A">>, <<"b">>, <<"B">>}
Queries ==
    {JoinWords(ws) : ws \in SeqsUpTo(CaseWords, 1)}
        \cup {JoinWords(<<x, y>>) : x \in {<<"a">>, <<"A">>}, y \in {<<"b">>, <<"B">>}}
LowerQueries == {q \in Queries : \A i \in DOMAIN q : q[i] \notin UpperAZ}

\* q1 and q2 differ in the case of their letters only.
SameButCase(q1, q2) ==
    /\ Len(q1) = Len(q2)
    /\ \A i \in DOMAIN q1 :
          \/ q1[i] = q2[i]
          \/ {q1[i], q2[i]} \in {{"a", "A"}, {"b", "B"}}

\* The words of a raw text, as written: its runs of letters between blanks.
WrittenWords(content) == {w \in CaseWords : w \in Range(StrSplit(content))}

LowerForm(w) == IF w \in {<<"a">>, <<"A">>} THEN <<"a">> ELSE <<"b">>

\* Every query gets the answers of its lower-case spelling, and so the
\* answers of every other spelling of it.
CaseBlind ==
    \A q1 \in Queries, q2 \in LowerQueries :
        SameButCase(q1, q2) =>
            /\ \A tfidf \in BOOLEAN :
                  search(q1, tfidf, DefaultMaxResults)
                      = search(q2, tfidf, DefaultMaxResults)
            /\ phrase_search(q1) = phrase_search(q2)

\* A batch has been applied and counted: each of its documents is found by
\* the lower-case form of each word its content was written with.
FoundByLowerCase ==
    (pc \in {"wait", "wait_last"} /\ pc' # pc) =>
        \A i \in DOMAIN batch : \A w \in WrittenWords(batch[i][2]) :
            /\ batch[i][1] \in DocsOf(SearchIn(Memory', LowerForm(w), FALSE,
                                                 DefaultMaxResults).value)
            /\ batch[i][1] \in PhraseSearchIn(Memory', LowerForm(w)).value

\* C12: two queries that differ only in letter case get the same result
\* from search and from phrase_search, in every state, and a document is
\* found by the lower-case form of each word of its content, however the
\* content spelled it.
C12_CaseInsensitive == [](CaseBlind) /\ [][FoundByLowerCase]_vars

\* A document written "B" is found by "b", and "B" and "b" get the same
\* non-empty answer.
C12_Witness ==
    /\ Quiescent /\ Running
    /\ \E d \in Corpus :
          /\ <<"b">> \in Range(Tokens(d))
          /\ d \in phrase_search(<<"b">>).value
          /\ d \in DocsOf(search(<<"B">>, FALSE, DefaultMaxResults).value)
          /\ search(<<"B">>, TRUE, DefaultMaxResults)
                = search(<<"b">>, TRUE, DefaultMaxResults)

(* -------------------------------- C13 ---------------------------------- *)
\* The posting entries of document d: shard, term and position list.
PostingsOf(idx, d) ==
    UNION {{<<s, w, Positions(idx[s][w], d)>> :
               w \in {x \in DOMAIN idx[s] : d \in DictKeys(idx[s][x])}} :
           s \in Shards}

\* A later add_documents call, with documents of new ids, on an index that
\* holds documents: the count grows by the number of new documents, the
\* entries and lengths of the old ones stay, and each old document is
\* returned by a search for any of its terms that does not cut the result.
LaterCallFrame ==
    (Corpus # {} /\ Corpus' # Corpus /\ Corpus \subseteq Corpus' /\ OnceEach') =>
        /\ total_docs = Cardinality(Corpus)
        /\ total_docs' = Cardinality(Corpus) + Cardinality(Corpus' \ Corpus)
        /\ \A d \in Corpus :
              /\ PostingsOf(index', d) = PostingsOf(index, d)
              /\ doc_lengths'[d] = doc_lengths[d]
              /\ \A t \in Range(Tokens(d)), tfidf \in BOOLEAN :
                    d \in DocsOf(SearchIn(Memory', t, tfidf, DefaultMaxResults).value)

\* C13: N documents, then in a later call M documents of other ids, leave
\* total_docs = N + M, the posting entries and lengths of the first N as they
\* were, and each of the first N returned by a search for any of its terms.
C13_LaterCallFrame == [][LaterCallFrame]_vars

\* Three documents, which takes two calls: the first and the last share a
\* term and a search for it returns both.
C13_Witness ==
    /\ Quiescent /\ Running /\ OnceEach
    /\ Cardinality(Corpus) = MaxDocs
    /\ total_docs = MaxDocs
    /\ \E t \in Range(Tokens(1)) \cap Range(Tokens(MaxDocs)) :
          {1, MaxDocs} \subseteq DocsOf(search(t, TRUE, DefaultMaxResults).value)

(* -------------------------------- C14 ---------------------------------- *)
\* add_documents ends with an error: the count is where it was.
FailedBatchNotCounted ==
    (last_error = "" /\ last_error' # "") =>
        /\ pc = "loop" /\ pc' = "idle"
        /\ total_docs' = total_docs

\* Inside add_documents the count moves only when every task of the batch
\* has run, by the length of the batch and without an error.
CountedWhenApplied ==
    (pc # "idle" /\ total_docs' # total_docs) =>
        /\ pc \in {"wait", "wait_last"}
        /\ futures = {}
        /\ total_docs' = total_docs + Len(batch)
        /\ last_error' = ""

\* C14: when the processing of a batch fails, add_documents propagates the
\* error and total_docs is not advanced for the batch; total_docs grows only
\* once every apply task of a batch has completed.
C14_FailedBatchNotCounted ==
    [][FailedBatchNotCounted /\ CountedWhenApplied]_vars

\* add_documents after cleanup() has raised: the length of its document is
\* recorded, the document is in no shard and is not counted.
C14_Witness ==
    /\ last_error = "RuntimeError"
    /\ pc = "idle"
    /\ \E d \in DOMAIN doc_lengths :
          /\ doc_lengths[d] > 0
          /\ ingested[d] = <<>>
          /\ PostingsOf(index, d) = {}
    /\ total_docs = Cardinality(Corpus)

(* -------------------------------- C15 ---------------------------------- *)
\* A batch is applied and counted: each of its documents that has no letter
\* and a new id has length 0 and no posting, and the count has grown by the
\* number of documents of the batch, those included.
EmptyDocumentCounted ==
    (pc \in {"wait", "wait_last"} /\ pc' # pc) =>
        /\ total_docs' = total_docs + Len(batch)
        /\ \A i \in DOMAIN batch :
              (NoLetter(batch[i][2]) /\ Len(ingested[batch[i][1]]) = 1) =>
                  /\ doc_lengths'[batch[i][1]] = 0
                  /\ PostingsOf(index', batch[i][1]) = {}

\* C15: a document whose content tokenizes to nothing gets doc_lengths 0
\* and no posting, and total_docs still grows by one for it.
C15_EmptyDocument == [][EmptyDocumentCounted]_vars

\* The document of digits and a document of words, both counted.
C15_Witness ==
    /\ Quiescent
    /\ OnceEach
    /\ total_docs = 2
    /\ \E d \in Corpus, e \in Corpus :
          /\ Tokens(d) = <<>> /\ doc_lengths[d] = 0 /\ PostingsOf(index, d) = {}
          /\ Tokens(e) # <<>> /\ PostingsOf(index, e) # {}

(* -------------------------------- C16 ---------------------------------- *)
\* The documents ingested so far as one stream, when each id was used once:
\* ids are handed out in increasing order.
WholeStream ==
    [d \in 1 .. Cardinality(Corpus) |-> <<d, JoinWords(Tokens(d))>>]

\* The index that takes the whole stream as a single batch.
SingleBatch ==
    ProcessBatch([index |-> [s \in Shards |-> EmptyDict],
                  is_dirty |-> [s \in Shards |-> FALSE],
                  doc_lengths |-> EmptyDict, total_docs |-> 0,
                  ingested |-> [d \in DocIds |-> <<>>]], WholeStream)

\* C16: for documents of distinct ids and a positive batch size the shard
\* mappings, doc_lengths and total_docs that add_documents leaves are those
\* of the whole stream processed as one batch, a last batch shorter than
\* batch_size included.
C16_BatchSizeIndependent ==
    (Quiescent /\ OnceEach /\ batch_size > 0 /\ Corpus # {}) =>
        /\ index = SingleBatch.index
        /\ doc_lengths = SingleBatch.doc_lengths
        /\ total_docs = SingleBatch.total_docs

\* Batches of one document: two documents that share a word went in as two
\* batches; and a batch size above the length of the stream.
C16_Witness ==
    /\ Quiescent /\ OnceEach
    /\ \/ /\ batch_size = 1
          /\ Cardinality(Corpus) = 2
          /\ Range(Tokens(1)) \cap Range(Tokens(2)) # {}
       \/ /\ batch_size = 2
          /\ Cardinality(Corpus) = 1
          /\ Tokens(1) # <<>>
    /\ index = SingleBatch.index
    /\ total_docs = Cardinality(Corpus)

(* -------------------------------- C17 ---------------------------------- *)
\* C17: an index whose batch size is not positive accepts no ingest: it
\* never gets into add_documents and never holds a document.
C17_ConfigRejected ==
    batch_size <= 0 => (pc = "idle" /\ Corpus = {} /\ total_docs = 0)

(* -------------------------------- C18 ---------------------------------- *)
AnyUnreadable ==
    \/ metadata_file.exists /\ ~metadata_file.readable
    \/ \E s \in Shards : shard_file[s].exists /\ ~shard_file[s].readable

\* A constructor that returns: no file of the directory is unreadable, and
\* each part of the state is what its file holds, or empty without a file.
ConstructedFromFiles ==
    (executor = "shutdown" /\ executor' = "running") =>
        /\ ~AnyUnreadable
        /\ \A s \in Shards :
              index'[s] = IF shard_file[s].exists THEN shard_file[s].data
                          ELSE EmptyDict
        /\ doc_lengths' = IF metadata_file.exists
                          THEN metadata_file.data.doc_lengths ELSE EmptyDict
        /\ total_docs' = IF metadata_file.exists
                         THEN metadata_file.data.total_docs ELSE 0
        /\ last_error' = ""

\* A constructor that raises: some file is there and cannot be read, and
\* nothing is loaded.
ConstructionFails ==
    (last_error' = "zlib.error" /\ last_error # "zlib.error") =>
        /\ AnyUnreadable
        /\ UNCHANGED <<index, doc_lengths, total_docs, executor, is_dirty>>

\* C18: a missing metadata or shard file is no error, the part of the state
\* it would hold is empty; a file that exists and cannot be read makes the
\* construction fail, and is never taken for an empty one.
C18_UnreadableFails ==
    /\ []((executor = "running") => ~AnyUnreadable)
    /\ [][ConstructedFromFiles /\ ConstructionFails]_vars

\* The construction has failed on a directory with a damaged file, with a
\* shard file that is missing and one that is there.
C18_Witness ==
    /\ last_error = "zlib.error"
    /\ executor = "shutdown"
    /\ AnyUnreadable
    /\ \E s \in Shards : ~shard_file[s].exists
    /\ \E s \in Shards : shard_file[s].exists
    /\ total_docs > 0

(* -------------------------------- C19 ---------------------------------- *)
\* A step of cleanup(): the only one that leaves an idle index shut down.
CleanupSaves ==
    (pc = "idle" /\ pc' = "idle" /\ executor' = "shutdown") =>
        /\ metadata_file' = FileOf([doc_lengths |-> doc_lengths,
                                    total_docs |-> total_docs])
        /\ \A s \in Shards :
              /\ is_dirty[s] => shard_file'[s] = FileOf(index[s])
              /\ ~is_dirty'[s]
        /\ UNCHANGED <<index, doc_lengths, total_docs, last_error>>

\* cleanup() on an index that is shut down already writes no shard file.
SecondCleanupWritesNoShard ==
    (pc = "idle" /\ pc' = "idle" /\ executor = "shutdown") =>
        /\ executor' = "shutdown"
        /\ shard_file' = shard_file

\* No step writes the file of a shard that is not dirty.
CleanShardNotWritten ==
    \A s \in Shards : shard_file'[s] # shard_file[s] => is_dirty[s]

\* C19: after cleanup() the metadata file holds the current doc_lengths and
\* total_docs, every dirty shard is written, no shard is dirty and the pool
\* is shut down; a second cleanup() succeeds and rewrites no shard file.
C19_CleanupSaves ==
    /\ []((pc = "idle" /\ executor = "shutdown") =>
            /\ ENABLED Cleanup
            /\ \A s \in Shards : ~is_dirty[s])
    /\ [][CleanupSaves /\ SecondCleanupWritesNoShard /\ CleanShardNotWritten]_vars

\* After a second cleanup(): the first one wrote a shard and left the file
\* of an empty shard unwritten, an add_documents that failed in between
\* left a length, and the metadata file holds it.
C19_Witness ==
    /\ pc = "idle"
    /\ executor = "shutdown"
    /\ flushed.taken
    /\ \E d \in DOMAIN doc_lengths : ingested[d] = <<>>
    /\ metadata_file = FileOf([doc_lengths |-> doc_lengths,
                                total_docs |-> total_docs])
    /\ \E s \in Shards : shard_file[s] = FileOf(index[s]) /\ index[s] # EmptyDict
    /\ \E s \in Shards : shard_file[s] = NoFile

(* -------------------------------- C20 ---------------------------------- *)
IsLetter(c) == c \in LowerAZ \cup UpperAZ

AsLower(c) == IF c = "A" THEN "a" ELSE IF c = "B" THEN "b" ELSE c

\* The positions of the letters of text, ascending.
LetterPos(text) ==
    SelectSeq([i \in 1 .. Len(text) |-> i], LAMBDA i : IsLetter(text[i]))

RECURSIVE Flatten(_)
Flatten(words) ==
    IF words = <<>> THEN <<>> ELSE Head(words) \o Flatten(Tail(words))

\* The index of the word that holds the k-th character of Flatten(words).
RECURSIVE WordIndexFrom(_, _, _)
WordIndexFrom(words, k, j) ==
    IF k <= Len(words[j]) THEN j
    ELSE WordIndexFrom(words, k - Len(words[j]), j + 1)

BlankBetween(text, p, q) == \E i \in (p + 1) .. (q - 1) : text[i] \in Whitespace

IsAZWord(w) == w # <<>> /\ \A i \in DOMAIN w : w[i] \in LowerAZ

\* words are the tokens of text: non-empty words of a-z; their characters
\* are the letters of text, lower-cased and in order; two letters that
\* follow each other are in one word exactly when no whitespace of text
\* lies between them.
IsTokenization(text, words) ==
    LET pos == LetterPos(text)
    IN  /\ \A j \in DOMAIN words : IsAZWord(words[j])
        /\ Flatten(words) = [k \in 1 .. Len(pos) |-> AsLower(text[pos[k]])]
        /\ \A k \in 1 .. (Len(pos) - 1) :
              (WordIndexFrom(words, k, 1) = WordIndexFrom(words, k + 1, 1))
                  <=> ~BlankBetween(text, pos[k], pos[k + 1])

\* The positions of word in words, from 0.
PositionsIn(words, word) ==
    SelectSeq([i \in 1 .. Len(words) |-> i - 1], LAMBDA p : words[p + 1] = word)

\* The batch of a stream is applied: what preprocess_text gave for each
\* content is its tokenization, and the index holds it and nothing else
\* for the document.
TokenizedAsSpecified ==
    (pc = "wait_last" /\ pc' = "idle") =>
        \A i \in DOMAIN batch :
            LET doc_id == batch[i][1]
                content == batch[i][2]
                words == preprocess_any(PyStr(content))
            IN  /\ IsTokenization(content, words)
                /\ Tokens(doc_id) = words
                /\ doc_lengths'[doc_id] = Len(words)
                /\ {<<e[2], e[3]>> : e \in PostingsOf(index', doc_id)}
                       = {<<w, PositionsIn(words, w)>> : w \in Range(words)}

\* C20: preprocess_text returns the non-empty a-z tokens got by lower-casing
\* the text, deleting every character that is neither a-z nor whitespace
\* and splitting on whitespace, in order; the empty text and a value that
\* is no string give no token; so every key of every shard mapping is a
\* non-empty string of a-z.
C20_Tokenizer ==
    /\ [](/\ \A v \in NonStrings \cup {PyStr(<<>>)} : preprocess_any(v) = <<>>
          /\ \A s \in Shards : \A w \in DOMAIN index[s] : IsAZWord(w))
    /\ [][TokenizedAsSpecified]_vars

\* The text "1B a" is being ingested: its tokens are b and a, both keys.
C20_Witness ==
    /\ pc = "wait_last"
    /\ futures = {}
    /\ batch = << <<1, <<"1", "B", " ", "a">> >> >>
    /\ Tokens(1) = << <<"b">>, <<"a">> >>
    /\ \A w \in {<<"a">>, <<"b">>} : \E s \in Shards : w \in DOMAIN index[s]

(* -------------------------------- C21 ---------------------------------- *)
\* The relevance page p was added with.
RelevanceOf(p) == added[p]

HeapPages == {heap[i][2] : i \in DOMAIN heap}

\* pages are k of the pages of the heap, or all of them when there are
\* fewer, from the most relevant down, and no page left out is more
\* relevant than one of them.
IsTopOfHeap(pages, k) ==
    /\ Len(pages) = Min(k, Len(heap))
    /\ \A i \in DOMAIN pages : pages[i] \in HeapPages
    /\ \A i, j \in DOMAIN pages :
          i < j => pages[i] # pages[j] /\ RelevanceOf(pages[i]) >= RelevanceOf(pages[j])
    /\ \A p \in HeapPages \ Range(pages) :
          \A i \in DOMAIN pages : RelevanceOf(p) <= RelevanceOf(pages[i])

\* C21: whatever calls came before, peek_top_results(k) returns the pages
\* of the min(k, size) most relevant entries of the heap as it is now, in
\* descending relevance, and raises nothing.
C21_PeekFresh ==
    \A k \in Ks :
        LET out == PeekOutcome(heap, cached_results, cache_queue, CacheSize, k)
        IN  out.raised = "" /\ IsTopOfHeap(out.value, k)

(* -------------------------------- C22 ---------------------------------- *)
\* C22: the size of a heap built with a max_heap_size never exceeds it.
C22_SizeBounded == \A n \in max_heap_size : Len(heap) <= n

(* -------------------------------- C23 ---------------------------------- *)
Lowered(w) == [i \in DOMAIN w |-> AsLower(w[i])]

WasInserted(p) == \E w \in inserted : Lowered(w) = Lowered(p)

\* C23: search_prefix(p) is true exactly when p is not empty and is, but
\* for the case of its letters, a word that was inserted (so it is false
\* for a proper prefix that was not inserted), and it is what the
\* traversal gives without the cache.
C23_SearchPrefixExact ==
    \A p \in TrieWords :
        LET out == search_prefix(trie, prefix_cache, p)
        IN  /\ out.value = (p # <<>> /\ WasInserted(p))
            /\ out.value = search_prefix(trie, <<>>, p).value

\* "ab" was searched for and not found, then inserted as "aB": the cache
\* still holds the negative answer for the prefix "a", none for "ab", and
\* "ab" is found.
C23_Witness ==
    /\ inserted = {<<"a", "B">>}
    /\ prefix_cache = <<[key |-> <<"a">>, value |-> FALSE]>>
    /\ search_prefix(trie, prefix_cache, <<"a", "b">>).value
    /\ ~search_prefix(trie, prefix_cache, <<"A">>).value

(* -------------------------------- C24 ---------------------------------- *)
\* What the file of shard s holds, the empty mapping when there is none.
OnDisk(s) == IF shard_file[s].exists THEN shard_file[s].data ELSE EmptyDict

\* A step of save() on shard s, and a step that builds the shard anew from
\* its file.
SavedShard(s) == shard_file'[s] = FileOf(index[s]) /\ index'[s] = index[s]
LoadedAnew(s) ==
    pc = "idle" /\ shard_file'[s] = shard_file[s] /\ index'[s] = OnDisk(s)

DirtyFlagProtocol ==
    \A s \in Shards :
        \* an apply task that ends, or any change of the mapping by one, marks
        /\ (s \in futures /\ s \notin futures') => is_dirty'[s]
        /\ (pc # "idle" /\ index'[s] # index[s]) => is_dirty'[s]
        \* only save() clears the flag (a shard object built anew starts clean)
        /\ (is_dirty[s] /\ ~is_dirty'[s]) => (SavedShard(s) \/ LoadedAnew(s))
        \* the file is written exactly by the save of a dirty shard
        /\ (shard_file'[s] # shard_file[s]) => (is_dirty[s] /\ SavedShard(s))
        /\ (metadata_file' # metadata_file /\ is_dirty[s]) => SavedShard(s)
        \* a shard that got no term is neither marked nor written
        /\ (~is_dirty[s] /\ index'[s] = index[s]) =>
              (~is_dirty'[s] /\ shard_file'[s] = shard_file[s])

\* C24: an apply task sets is_dirty, only save() clears it, save() writes
\* the file exactly when the shard is dirty, a shard that got no term is
\* neither marked nor rewritten; so a shard that is not dirty holds what
\* its file holds, or nothing when it has no file.
C24_DirtyFlag ==
    /\ [](\A s \in Shards : ~is_dirty[s] => index[s] = OnDisk(s))
    /\ [][DirtyFlagProtocol]_vars

\* A shard that is dirty and ahead of its file, next to a shard that is
\* clean and has no file.
C24_Witness ==
    /\ \E s \in Shards :
          is_dirty[s] /\ shard_file[s].exists /\ shard_file[s].data # index[s]
    /\ \E s \in Shards :
          ~is_dirty[s] /\ ~shard_file[s].exists /\ index[s] = EmptyDict

(* -------------------------------- C25 ---------------------------------- *)
StrictlyIncreasing(positions) ==
    \A i, j \in DOMAIN positions : i < j => positions[i] < positions[j]

\* C25: every posting list, the positions of one term in one document, is
\* strictly increasing, so without a duplicate.
C25_PositionsIncreasing ==
    \A s \in Shards : \A w \in DOMAIN index[s] : \A i \in DOMAIN index[s][w] :
        StrictlyIncreasing(index[s][w][i].positions)

(* -------------------------------- C26 ---------------------------------- *)
\* C26: a length that doc_lengths holds is never changed or lost.
C26_LengthFixed ==
    [][\A d \in DOMAIN doc_lengths :
          d \in DOMAIN doc_lengths' /\ doc_lengths'[d] = doc_lengths[d]]_vars

(* -------------------------------- C27 ---------------------------------- *)
\* C27: each term is a key of one shard at most, the shard the router gives
\* for it.
C27_TermInRoutedShard ==
    \A s \in Shards : \A w \in DOMAIN index[s] :
        /\ get_shard_for_word(w) = s
        /\ \A other \in Shards \ {s} : w \notin DOMAIN index[other]

(* -------------------------------- C28 ---------------------------------- *)
\* C28: no query reads a shard's mapping while an update task is inside its
\* critical section on that shard, so no query meets a batch that is applied
\* in part.
C28_ReadsGuarded == last_read.taken => (~last_read.locked /\ ~last_read.partial)

(* -------------------------------- C29 ---------------------------------- *)
\* The tasks that are inside the critical section of shard s.
InsideLock(s) == {c \in Callers : tasks[c][s].state = "locked"}

Submitted(c) == calls[c].pc = "idle" /\ calls'[c].pc = "wait"

\* The batch of a call gets a task for a shard exactly when one of its words
\* is routed there, and the tasks share out the occurrences of the batch.
OneTaskPerShard ==
    \A c \in Callers :
        Submitted(c) =>
            LET words == TokensOf(calls'[c].docs)
            IN  /\ \A s \in Shards :
                     /\ tasks'[c][s].state = "queued" <=>
                            \E i \in DOMAIN words : get_shard_for_word(words[i]) = s
                     /\ tasks'[c][s].state \in {"queued", "none"}
                     /\ \A i \in DOMAIN tasks'[c][s].todo :
                            get_shard_for_word(tasks'[c][s].todo[i][1]) = s
                /\ SumOver([s \in Shards |-> Len(tasks'[c][s].todo)], Shards)
                       = Len(words)

\* A shard's mapping is changed by the task that holds its lock only.
MutatedUnderLock ==
    \A s \in Shards :
        index'[s] # index[s] =>
            \E c \in InsideLock(s) : lock[s] = c /\ tasks'[c][s].done = tasks[c][s].done + 1

\* C29: a batch has one update task for each shard that received work; two
\* tasks, of one batch or of concurrent calls, are never inside the critical
\* section of one shard together, while tasks of different shards may be.
C29_OneWriterPerShard ==
    /\ [](\A s \in Shards :
            /\ Cardinality(InsideLock(s)) <= 1
            /\ \A c \in Callers : c \in InsideLock(s) <=> lock[s] = c)
    /\ [][OneTaskPerShard /\ MutatedUnderLock]_vars

\* A task has applied a part of its batch to a shard while the task of a
\* concurrent call for the same shard waits for the lock.
C29_Witness ==
    \E s \in Shards : \E c, d \in Callers :
        /\ c # d
        /\ tasks[c][s].state = "locked" /\ tasks[c][s].done > 0
        /\ tasks[c][s].todo # <<>>
        /\ tasks[d][s].state = "waiting"

(* -------------------------------- C30 ---------------------------------- *)
\* Position p of document d is among the postings of word w.
HasPosting(w, d, p) ==
    LET s == get_shard_for_word(w)
    IN  /\ w \in DOMAIN index[s]
        /\ d \in DictKeys(index[s][w])
        /\ p \in Range(Positions(index[s][w], d))

\* Every token of every document of docs has its posting in the shards.
BatchApplied(docs) ==
    \A i \in DOMAIN docs :
        LET words == preprocess_text(docs[i][2])
        IN  \A j \in DOMAIN words : HasPosting(words[j], docs[i][1], j - 1)

BatchBarrier ==
    \* total_docs advances when all tasks of the batch are done and all its
    \* postings are in the shards
    /\ (pc # "idle" /\ total_docs' # total_docs) =>
          /\ pc \in {"wait", "wait_last"}
          /\ futures = {} /\ BatchApplied(batch)
          /\ total_docs' = total_docs + Len(batch)
    \* while tasks of a batch are left nothing of a next batch is collected
    /\ (pc # "idle" /\ futures # {}) =>
          /\ doc_lengths' = doc_lengths
          /\ batch' = batch
          /\ futures' \subseteq futures
          /\ pc' = pc
    \* the first pass of a batch starts from the loop of add_documents
    /\ (pc # "idle" /\ doc_lengths' # doc_lengths) => (pc = "loop" /\ futures = {})

\* C30: within add_documents, total_docs is advanced, and the next batch is
\* collected, only after every update task of the current batch is done; the
\* postings of a batch are all in the shards before total_docs counts it.
C30_BatchBarrier == [][BatchBarrier]_vars

\* The tasks of the second batch of a call are under way, the first batch
\* is counted.
C30_Witness ==
    /\ pc \in {"wait", "wait_last"}
    /\ futures # {}
    /\ total_docs > 0
    /\ ~metadata_file.exists
    /\ ~BatchApplied(batch)

(* -------------------------------- C31 ---------------------------------- *)
\* C31: when add_documents or search has handed control back, by returning
\* or by raising, no task the call submitted to the pool is pending or running.
C31_NoWorkLeft ==
    /\ pc = "idle" => futures = {}
    /\ \A t \in Searchers : searching[t].pc = "idle" => LeftTerms(t) = {}

(* -------------------------------- C32 ---------------------------------- *)
\* C32: with the pool of num_shards workers shared by update tasks and term
\* tasks, and a task holding the lock of its own shard only, every
\* add_documents call and every search call under way hands control back in
\* the end, under fair scheduling.
\* No thread is inside add_documents or search.
AllHandedBack ==
    /\ \A c \in Callers : calls[c].pc \in {"idle", "returned"}
    /\ \A t \in Searchers : searching[t].pc = "idle"

\* Each thread makes one call, so that every call under way comes to its end
\* is: from some point on no thread is inside a call.
C32_Terminates ==
    /\ [](\A s \in Shards : \A c \in Callers :
            lock[s] = c => tasks[c][s].state = "locked")
    /\ <>[]AllHandedBack

\* Every worker is taken, one of them by a task that waits for a lock another
\* call's task holds, while update tasks and term tasks wait in the queue.
C32_Witness ==
    /\ ~WorkerFree
    /\ \E s \in Shards : \E c, d \in Callers :
          tasks[c][s].state = "locked" /\ tasks[d][s].state = "waiting"
    /\ \E c \in Callers : \E s \in Shards : tasks[c][s].state = "queued"
    /\ \E t \in Searchers :
          /\ searching[t].pc = "wait"
          /\ \E i \in DOMAIN searching[t].futures :
                searching[t].futures[i].state = "pending"

(* -------------------------------- C33 ---------------------------------- *)
\* C33: in every state every term that is a key of a shard has at least one
\* document and at most total_docs documents, so that the argument of the
\* idf logarithm is at least 1 and no idf and no score is negative.
C33_IdfArgument ==
    \A s \in Shards : \A w \in DOMAIN index[s] :
        /\ Len(index[s][w]) >= 1
        /\ Len(index[s][w]) <= total_docs
        /\ ~ScoreLess(Idf(total_docs, Len(index[s][w])), Zero)

(* -------------------------------- C34 ---------------------------------- *)
\* add_documents returns, raising nothing.
ReturnsNormally == pc # "idle" /\ pc' = "idle" /\ last_error' = ""

\* What a new index would load from the directory after the step: every
\* shard from its file, the empty mapping without one, and the metadata.
FlushedOnReturn ==
    ReturnsNormally =>
        /\ \A s \in Shards :
              /\ ~is_dirty'[s]
              /\ shard_file'[s].exists => /\ shard_file'[s].readable
                                          /\ shard_file'[s].data = index'[s]
              /\ ~shard_file'[s].exists => index'[s] = EmptyDict
        /\ metadata_file'.exists /\ metadata_file'.readable
        /\ metadata_file'.data.doc_lengths = doc_lengths'
        /\ metadata_file'.data.total_docs = total_docs'

\* C34: when add_documents returns normally no shard is dirty, and the
\* directory holds what the memory holds: the mapping of every shard,
\* doc_lengths and total_docs, without a call of cleanup().
C34_FlushedOnReturn == [][FlushedOnReturn]_vars

\* add_documents has returned on an index that was never cleaned up, and
\* the files hold the documents it ingested.
C34_Witness ==
    /\ pc = "idle" /\ last_error = "" /\ executor = "running"
    /\ ~flushed.taken
    /\ total_docs > 1
    /\ metadata_file.exists /\ metadata_file.data.total_docs = total_docs
    /\ \A s \in Shards :
          index[s] # EmptyDict /\ shard_file[s].exists /\ shard_file[s].data = index[s]

(* -------------------------------- C35 ---------------------------------- *)
\* C35: after completed add_documents calls, some of which may hand in an id
\* again with another or with an empty content, search with tf-idf raises
\* nothing for any query: every document of a posting list has a recorded
\* length above zero, and total_docs is above zero when there is a posting.
C35_SearchNeverRaises ==
    (Quiescent /\ Running) =>
        /\ \A q \in Texts : search(q, TRUE, DefaultMaxResults).raised = ""
        /\ \A s \in Shards : \A w \in DOMAIN index[s] : \A i \in DOMAIN index[s][w] :
              /\ index[s][w][i].doc \in DOMAIN doc_lengths
              /\ doc_lengths[index[s][w][i].doc] > 0
              /\ total_docs > 0

(* -------------------------------- C36 ---------------------------------- *)
\* The posting entries of document d that hold position p.
EntriesAt(d, p) == {e \in PostingsOf(index, d) : p \in Range(e[3])}

\* C36: for a document ingested once, the positions of its postings over all
\* terms of all shards are 0 .. doc_lengths[d] - 1, each of them once and
\* under the token at that offset; so no term occurs more often in d than d
\* has tokens.
C36_EveryTokenOnce ==
    Quiescent =>
        \A d \in DocIds :
            Len(ingested[d]) = 1 =>
                /\ d \in DOMAIN doc_lengths
                /\ doc_lengths[d] = Len(Tokens(d))
                /\ \A p \in 0 .. (doc_lengths[d] - 1) :
                      /\ Cardinality(EntriesAt(d, p)) = 1
                      /\ \A e \in EntriesAt(d, p) :
                            /\ e[2] = Tokens(d)[p + 1]
                            /\ Cardinality({i \in DOMAIN e[3] : e[3][i] = p}) = 1
                /\ \A e \in PostingsOf(index, d) :
                      /\ Range(e[3]) \subseteq 0 .. (doc_lengths[d] - 1)
                      /\ Len(e[3]) <= doc_lengths[d]

\* A document of three tokens, one word twice, ingested once after another
\* document.
C36_Witness ==
    /\ Quiescent
    /\ \E d \in DocIds :
          /\ Len(ingested[d]) = 1 /\ Len(Tokens(d)) = 3
          /\ \E e \in PostingsOf(index, d) : Len(e[3]) = 2
          /\ \E other \in DocIds \ {d} : ingested[other] # <<>>


(* ------------------------------- C37 ----------------------------------- *)
\* A step of a query: a call of search, one of its tasks, the taking of a
\* result, or a whole phrase_search.
QueryStep == searching' # searching

\* What a query may not touch.
QueryFrame == UNCHANGED <<index, is_dirty, doc_lengths, total_docs>>

\* The call of thread t hands its result back in this step.
SearchReturns(t) == searching[t].pc = "wait" /\ searching'[t].pc = "idle"

\* The result is the one of a search that runs alone on the same index.
AsAlone(t) ==
    \E q \in QueryTexts :
        /\ preprocess_text(q) = searching[t].terms
        /\ searching'[t].outcome = search(q, searching[t].use_tfidf, DefaultMaxResults)

\* The phrase search of thread t found what a lone phrase_search finds.
PhraseAsAlone(t) ==
    (searching[t] = NoSearch /\ searching'[t].pc = "idle" /\ searching'[t] # NoSearch)
        => \E q \in QueryTexts :
              /\ preprocess_text(q) = searching'[t].terms
              /\ searching'[t].found = phrase_search(q).value

\* A search that waits is never stuck: one of the tasks of the queries can
\* start or finish, or the result the caller waits for is there.
QueriesMove ==
    (\E t \in Searchers : searching[t].pc = "wait") =>
        \E t \in Searchers :
            \/ \E i \in DOMAIN searching[t].futures :
                  \/ searching[t].futures[i].state = "running"
                  \/ searching[t].futures[i].state = "pending" /\ WorkerFree
            \/ /\ searching[t].pc = "wait"
               /\ searching[t].futures[searching[t].at].state = "done"

\* C37: search and phrase_search, for any query, absent terms included,
\* leave every shard's mapping (no key is created), is_dirty, doc_lengths and
\* total_docs as they were; searches that run together with no ingestion
\* under way are never stuck, and each hands back what a search running
\* alone hands back.
C37_QueriesReadOnly ==
    /\ [](QueriesMove)
    /\ [][QueryStep => /\ QueryFrame
                       /\ \A t \in Searchers : SearchReturns(t) => AsAlone(t)
                       /\ \A t \in Searchers : PhraseAsAlone(t)]_vars

\* A search for a word that no shard holds has handed back its empty result
\* on an index of two documents while the other thread's search of two
\* terms waits for its tasks.
C37_Witness ==
    /\ total_docs = 2
    /\ ~InShard(index, hash_seed, <<"b">>)
    /\ \E t \in Searchers, u \in Searchers :
          /\ t # u
          /\ searching[t].pc = "idle"
          /\ searching[t].terms = <<<<"b">>>>
          /\ Len(searching[t].futures) = 1
          /\ searching[t].futures[1].state = "done"
          /\ searching[t].outcome = Returned(<<>>)
          /\ searching[u].pc = "wait"
          /\ Len(searching[u].terms) = 2
          /\ searching[u].futures[1].state = "done"
          /\ searching[u].futures[2].state = "running"


(* ------------------------------- C38 ----------------------------------- *)
\* Both threads have returned from add_documents.
BothReturned == \A c \in Callers : calls[c].pc = "returned"

\* C38: when two threads have called add_documents concurrently with
\* disjoint ids and both have returned, the state in memory and on disk is
\* the one of the two calls run one after the other: every document is
\* counted in total_docs, the metadata file holds the lengths and the count,
\* and every shard is clean and equal to its file.
C38_AsSequential ==
    BothReturned =>
        /\ total_docs = Cardinality(DOMAIN doc_lengths)
        /\ metadata_file = FileOf([doc_lengths |-> doc_lengths,
                                   total_docs |-> Cardinality(DOMAIN doc_lengths)])
        /\ \A s \in Shards : ~is_dirty[s] /\ index[s] = OnDisk(s)


(* ------------------------------- C39 ----------------------------------- *)
\* C39: after any sequence of add_page, get_top_results, peek_top_results
\* and clear_cache, cached_results holds at most cache_size entries and
\* every key of cached_results is in cache_queue, so that no
\* peek_top_results(k) raises.
C39_CacheInStep ==
    /\ Cardinality(DOMAIN cached_results) <= CacheSize
    /\ DOMAIN cached_results \subseteq Range(cache_queue)
    /\ \A k \in Ks :
          PeekOutcome(heap, cached_results, cache_queue, CacheSize, k).raised = ""


(* ------------------------------- C40 ----------------------------------- *)
\* The step is an add_document that hands the id current_doc_id + 1 to the
\* index.
TakesNextId == current_doc_id' = current_doc_id + 1

\* C40: the facade never ingests a document id a second time: the id
\* add_document takes, 1, 2, 3, ... in the order of the calls, is never an
\* id the index already holds, the ids it has loaded from the files of an
\* earlier run included.
C40_FreshIds == [][TakesNextId => (current_doc_id + 1) \notin DOMAIN doc_lengths]_vars

====
